---- MODULE Spec2Model ----
(***************************************************************************)
(* Run orchestration of DocAIAgent: the runs / run_steps / run_events      *)
(* tables, the run state machine, the worker contract, the fix loop, the   *)
(* event stream and idempotent run creation, as laid down in               *)
(* guideline2.md, documents.md and the endpoint specification.             *)
(***************************************************************************)
EXTENDS Integers, Sequences, FiniteSets, TLC

VARIABLES
    runs,          \* runs table: run_id (index) -> row
    run_steps,     \* run_steps table: run_id -> rows in creation order
    queue,         \* job envelopes waiting for a worker
    run_events,    \* run_events table, rows in insertion order
    next_seq,      \* run_id -> seq of the next event of that run
    response,      \* result of the last approve call
    qc_backedges,  \* run_id -> number of quality_check -> rendering transitions
    calls,         \* POST /runs calls in progress
    sub,           \* one subscriber of GET /runs/{run_id}/events
    orch,          \* handler invocations between their read and their write
    ir,            \* SlideSpec IR under the fix engine, with the engine's progress
    plan,          \* LayoutPlan boxes of one slide and the QC report on them
    ui             \* test UI: state of app.js

vars == <<runs, run_steps, queue, run_events, next_seq, response, qc_backedges, calls, sub, orch, ir, plan, ui>>

(***************************************************************************)
(* Bounds                                                                  *)
(***************************************************************************)
MaxRuns == 2
MaxEvents == 4
MaxCalls == 3
MaxSteps == 20

(***************************************************************************)
(* Tables and enumerations                                                 *)
(***************************************************************************)
RunStatus == {"created", "planning", "waiting_approval", "executing",
              "rendering", "quality_check", "completed", "failed", "cancelled"}

Terminal == {"completed", "failed", "cancelled"}

NonTerminal == RunStatus \ Terminal

StepStatus == {"queued", "running", "succeeded", "failed", "skipped",
               "cancelled", "waiting_approval"}

EventTypes == {"log", "progress", "intermediate", "error"}

IssueTypes == {"overflow"}

FailureClasses == {"TIMEOUT", "SCHEMA_INVALID", "POLICY_DENIED"}

max_fix_loops == 3

NULL == "null"

Orgs == {"o1"}

Users == {"u1", "u2"}

Keys == {"k1", "k2"}

\* A row of the runs table as POST /runs inserts it.
NewRun(org, user, key, gate) ==
    [org_id |-> org, created_by |-> user, idempotency_key |-> key,
     status |-> "created", cancel_requested |-> FALSE,
     require_outline_approval |-> gate,
     fix_loops |-> 0, needs_human_edit |-> FALSE, error_code |-> NULL]

\* A row of the run_steps table as the orchestrator creates it.  input_hash
\* stands for dedupe.input_hash: the version of the IR the step consumes.
NewStep(key, status, attempt, hash) ==
    [step_key |-> key, status |-> status, attempt |-> attempt, input_hash |-> hash,
     error_code |-> NULL, output_json |-> NULL, issues |-> {}]

\* Job envelope.
Job(r, i, key, attempt) ==
    [run_id |-> r, step_id |-> i, step_key |-> key, attempt |-> attempt]

\* output_json a step stores: determined by the step and its input.
OutputOf(key, hash) == key \o "@" \o ToString(hash)

\* input_hash of the step that follows `step`: fix_layout produces a new IR,
\* every other step hands on the IR it was given.
NextHash(step) ==
    IF step.step_key = "fix_layout" THEN step.input_hash + 1 ELSE step.input_hash

RunIds == DOMAIN runs

LastStepId(r) == Len(run_steps[r])

HasStep(r) == Len(run_steps[r]) > 0

LastStep(r) == run_steps[r][Len(run_steps[r])]


(***************************************************************************)
(* Step catalog and retry policy                                           *)
(***************************************************************************)
StepKeys == {"outline", "approval_outline", "plan_slidespec", "repair_slidespec",
             "render_plan", "quality_check_layout_plan", "fix_layout", "finalize"}

StepType(key) ==
    CASE key \in {"outline", "plan_slidespec", "repair_slidespec"} -> "agent"
      [] key = "approval_outline" -> "approval"
      [] key = "render_plan" -> "render"
      [] key = "quality_check_layout_plan" -> "quality"
      [] OTHER -> "system"

\* Retry/timeout policy per job type: max_attempts.
MaxAttempts(key) ==
    CASE StepType(key) = "agent" -> 2
      [] OTHER -> 1

RetryOnSchemaToo(key) ==
    CASE StepType(key) = "agent" -> {"TIMEOUT", "SCHEMA_INVALID"}
      [] OTHER -> {}

\* Retry/timeout policy per job type: retry_on.
RetryOn(key) ==
    CASE StepType(key) = "agent" -> {"TIMEOUT"}
      [] OTHER -> {}

\* Retry/timeout policy per job type: on_schema_fail.
OnSchemaFail(key) == IF key = "plan_slidespec" THEN "repair_slidespec" ELSE NULL

\* Failure classes a step of this key can end with.
FailuresOf(key) ==
    IF key \in {"plan_slidespec", "repair_slidespec"}
    THEN FailureClasses
    ELSE FailureClasses \ {"SCHEMA_INVALID"}

(***************************************************************************)
(* Run state machine                                                       *)
(***************************************************************************)
MatchesAlways(run, expected) == TRUE

\* WHERE clause of a conditional update: the row still has an expected status.
Matches(run, expected) == run.status \in expected

\* Conditional update of runs.status: applied only from an expected status.
Transition(run, expected, new) ==
    IF Matches(run, expected) THEN [run EXCEPT !.status = new] ELSE run

\* pass of a QC report.
QcPass(issues) == issues = {}

QcDecisionOffByOne(issues, loops) ==
    IF QcPass(issues) THEN "finalize"
    ELSE IF loops <= max_fix_loops THEN "fix_layout"
    ELSE "needs_human_edit"

QcDecisionNoFlag(issues, loops) ==
    IF QcPass(issues) THEN "finalize"
    ELSE IF loops < max_fix_loops THEN "fix_layout"
    ELSE "finalize"

\* What the orchestrator schedules after a quality check.
QcDecision(issues, loops) ==
    IF QcPass(issues) THEN "finalize"
    ELSE IF loops < max_fix_loops THEN "fix_layout"
    ELSE "needs_human_edit"

StatusAfterPlanExecuting(key, status) ==
    CASE key \in {"plan_slidespec", "repair_slidespec"} -> "executing"
      [] key = "render_plan" -> "quality_check"
      [] key = "fix_layout" -> "rendering"
      [] OTHER -> status

\* Run status while the step that follows `key` is scheduled.
StatusAfter(key, status) ==
    CASE key \in {"plan_slidespec", "repair_slidespec"} -> "rendering"
      [] key = "render_plan" -> "quality_check"
      [] key = "fix_layout" -> "rendering"
      [] OTHER -> status

StepAfterAlwaysGate(key, run, issues) ==
    CASE key = "outline" -> "approval_outline"
      [] key = "approval_outline" -> "plan_slidespec"
      [] key \in {"plan_slidespec", "repair_slidespec"} -> "render_plan"
      [] key = "render_plan" -> "quality_check_layout_plan"
      [] key = "quality_check_layout_plan" ->
            IF QcDecision(issues, run.fix_loops) = "fix_layout" THEN "fix_layout" ELSE "finalize"
      [] key = "fix_layout" -> "render_plan"
      [] OTHER -> NULL

StepAfterSkipQc(key, run, issues) ==
    CASE key = "outline" ->
            IF run.require_outline_approval THEN "approval_outline" ELSE "plan_slidespec"
      [] key = "approval_outline" -> "plan_slidespec"
      [] key \in {"plan_slidespec", "repair_slidespec"} -> "render_plan"
      [] key = "render_plan" -> "finalize"
      [] OTHER -> NULL

\* The step that follows a succeeded step in the workflow.
StepAfter(key, run, issues) ==
    CASE key = "outline" ->
            IF run.require_outline_approval THEN "approval_outline" ELSE "plan_slidespec"
      [] key = "approval_outline" -> "plan_slidespec"
      [] key \in {"plan_slidespec", "repair_slidespec"} -> "render_plan"
      [] key = "render_plan" -> "quality_check_layout_plan"
      [] key = "quality_check_layout_plan" ->
            IF QcDecision(issues, run.fix_loops) = "fix_layout" THEN "fix_layout" ELSE "finalize"
      [] key = "fix_layout" -> "render_plan"
      [] OTHER -> NULL

(***************************************************************************)
(* Event log                                                               *)
(***************************************************************************)
SeqForGlobal(r) == Len(run_events)

\* seq of the next event of run r: the run's own counter.
SeqFor(r) == next_seq[r]

EmitEventReplace(r, type) ==
    /\ run_events' = [run_events EXCEPT ![Len(run_events)] =
                          [run_id |-> r, seq |-> SeqFor(r), event_type |-> type]]
    /\ next_seq' = [next_seq EXCEPT ![r] = @ + 1]

\* INSERT INTO run_events, subject to UNIQUE(run_id, seq).
EmitEvent(r, type) ==
    /\ \A e \in DOMAIN run_events :
          ~(run_events[e].run_id = r /\ run_events[e].seq = SeqFor(r))
    /\ run_events' = Append(run_events,
                            [run_id |-> r, seq |-> SeqFor(r), event_type |-> type])
    /\ next_seq' = [next_seq EXCEPT ![r] = @ + 1]

NoEvent == UNCHANGED <<run_events, next_seq>>

NeverInFlight(r, key) == FALSE

\* An instance of step `key` of run r is queued or running.
InFlight(r, key) ==
    \E i \in DOMAIN run_steps[r] :
        /\ run_steps[r][i].step_key = key
        /\ run_steps[r][i].status \in {"queued", "running"}

ReusableAnyHash(r, key, hash) ==
    {i \in DOMAIN run_steps[r] :
        run_steps[r][i].step_key = key /\ run_steps[r][i].status = "succeeded"}

NothingReusable(r, key, hash) == {}

\* Succeeded instances of step `key` of run r with the same input hash.
Reusable(r, key, hash) ==
    {i \in DOMAIN run_steps[r] :
        /\ run_steps[r][i].step_key = key
        /\ run_steps[r][i].status = "succeeded"
        /\ run_steps[r][i].input_hash = hash}

\* What a schedule request for (key, hash) yields without executing the
\* step: the stored output of a succeeded instance with the same input.
ReusedOutput(r, key, hash) ==
    IF Reusable(r, key, hash) # {}
    THEN run_steps[r][CHOOSE i \in Reusable(r, key, hash) : TRUE].output_json
    ELSE NULL

\* Schedule request for step `key` with run row `run`: nothing is enqueued
\* while an instance of the step is in flight or when a succeeded instance
\* with the same input hash can be reused; otherwise the row of the step is
\* created, its job enqueued and a progress event emitted.
Schedule(r, run, key, hash) ==
    IF InFlight(r, key) \/ Reusable(r, key, hash) # {}
    THEN /\ UNCHANGED <<runs, run_steps, queue>>
         /\ NoEvent
    ELSE /\ Len(run_steps[r]) < MaxSteps
         /\ runs' = [runs EXCEPT ![r] = run]
         /\ run_steps' = [run_steps EXCEPT ![r] = Append(@, NewStep(key, "queued", 1, hash))]
         /\ queue' = queue \cup {Job(r, Len(run_steps[r]) + 1, key, 1)}
         /\ EmitEvent(r, "progress")

(***************************************************************************)
(* Orchestrator and worker actions                                         *)
(***************************************************************************)
\* Orchestration start: created -> planning, first step enqueued; a run
\* whose cancellation was requested before the start is cancelled instead.
StartOrchestration(r) ==
    /\ runs[r].status = "created"
    /\ IF runs[r].cancel_requested
       THEN /\ runs' = [runs EXCEPT ![r] = Transition(@, {"created"}, "cancelled")]
            /\ UNCHANGED <<run_steps, queue>>
            /\ NoEvent
       ELSE Schedule(r, Transition(runs[r], {"created"}, "planning"), "outline", 0)
    /\ UNCHANGED <<response, qc_backedges, calls, sub, orch, ir, plan, ui>>

WorkerStartNoCheck(job) ==
    /\ job \in queue
    /\ run_steps[job.run_id][job.step_id].status = "queued"
    /\ queue' = queue \ {job}
    /\ run_steps' = [run_steps EXCEPT ![job.run_id][job.step_id].status = "running"]
    /\ UNCHANGED runs
    /\ EmitEvent(job.run_id, "log")
    /\ UNCHANGED <<response, qc_backedges, calls, sub, orch, ir, plan, ui>>

\* Worker picks a job: cancel check at job start, else the step runs.
WorkerStart(job) ==
    /\ job \in queue
    /\ run_steps[job.run_id][job.step_id].status = "queued"
    /\ queue' = queue \ {job}
    /\ IF runs[job.run_id].cancel_requested
       THEN /\ run_steps' = [run_steps EXCEPT ![job.run_id][job.step_id].status = "cancelled"]
            /\ runs' = [runs EXCEPT ![job.run_id] = Transition(@, NonTerminal, "cancelled")]
       ELSE /\ run_steps' = [run_steps EXCEPT ![job.run_id][job.step_id].status = "running"]
            /\ UNCHANGED runs
    /\ EmitEvent(job.run_id, "log")
    /\ UNCHANGED <<response, qc_backedges, calls, sub, orch, ir, plan, ui>>

WorkerCancelCheckAny(r) ==
    /\ HasStep(r)
    /\ LastStep(r).status \in {"running", "succeeded"}
    /\ runs[r].cancel_requested
    /\ run_steps' = [run_steps EXCEPT ![r][LastStepId(r)].status = "cancelled"]
    /\ runs' = [runs EXCEPT ![r] = Transition(@, NonTerminal, "cancelled")]
    /\ EmitEvent(r, "log")
    /\ UNCHANGED <<queue, response, qc_backedges, calls, sub, orch, ir, plan, ui>>

\* Cancel check of a running step before a tool call or a long loop.
WorkerCancelCheck(r) ==
    /\ HasStep(r)
    /\ LastStep(r).status = "running"
    /\ runs[r].cancel_requested
    /\ run_steps' = [run_steps EXCEPT ![r][LastStepId(r)].status = "cancelled"]
    /\ runs' = [runs EXCEPT ![r] = Transition(@, NonTerminal, "cancelled")]
    /\ EmitEvent(r, "log")
    /\ UNCHANGED <<queue, response, qc_backedges, calls, sub, orch, ir, plan, ui>>

\* A running step succeeds: status and output_json are stored.
WorkerSucceed(r, issues) ==
    /\ HasStep(r)
    /\ LastStep(r).status = "running"
    /\ LastStep(r).step_key = "quality_check_layout_plan" \/ issues = {}
    /\ run_steps' = [run_steps EXCEPT ![r][LastStepId(r)] =
                        [@ EXCEPT !.status = "succeeded",
                                  !.output_json = OutputOf(LastStep(r).step_key, LastStep(r).input_hash),
                                  !.issues = issues]]
    /\ NoEvent
    /\ UNCHANGED <<runs, queue, response, qc_backedges, calls, sub, orch, ir, plan, ui>>

\* A running step fails: status, error_code are stored, an error event emitted.
WorkerFail(r, class) ==
    /\ HasStep(r)
    /\ LastStep(r).status = "running"
    /\ class \in FailuresOf(LastStep(r).step_key)
    /\ run_steps' = [run_steps EXCEPT ![r][LastStepId(r)] =
                        [@ EXCEPT !.status = "failed", !.error_code = class]]
    /\ EmitEvent(r, "error")
    /\ UNCHANGED <<runs, queue, response, qc_backedges, calls, sub, orch, ir, plan, ui>>


\* Status a run must have for the transition that follows step `key`.
ExpectedBefore(key, status) ==
    CASE key \in {"plan_slidespec", "repair_slidespec"} -> {"planning", "executing"}
      [] key = "render_plan" -> {"rendering"}
      [] key = "fix_layout" -> {"quality_check"}
      [] OTHER -> {status}

RunAfterNoCount(run, seen, key, issues) ==
    LET moved == Transition(run, ExpectedBefore(key, seen.status), StatusAfter(key, seen.status))
        decision == QcDecision(issues, seen.fix_loops)
    IN  IF key # "quality_check_layout_plan" THEN moved
        ELSE IF decision = "needs_human_edit" THEN [moved EXCEPT !.needs_human_edit = TRUE]
        ELSE moved

\* The run row after the orchestrator has handled the success of step `key`:
\* `run` is the row as stored, `seen` the row as the handler read it.
RunAfter(run, seen, key, issues) ==
    LET moved == Transition(run, ExpectedBefore(key, seen.status), StatusAfter(key, seen.status))
        decision == QcDecision(issues, seen.fix_loops)
    IN  IF key # "quality_check_layout_plan" THEN moved
        ELSE IF decision = "fix_layout" THEN [moved EXCEPT !.fix_loops = seen.fix_loops + 1]
        ELSE IF decision = "needs_human_edit" THEN [moved EXCEPT !.needs_human_edit = TRUE]
        ELSE moved

\* Write of the orchestrator at the boundary after succeeded step i of run r,
\* decided on the run row `seen` it read.  The run completes after finalize;
\* otherwise the cancel flag is polled and the next step is refused or
\* scheduled.  Every status change is a conditional update; when it does not
\* apply, nothing is written.
AdvanceWrite(r, seen, i) ==
    LET step == run_steps[r][i]
        key == step.step_key
        next == StepAfter(key, seen, step.issues)
        after == RunAfter(runs[r], seen, key, step.issues)
    IN  IF next = NULL
        THEN /\ runs' = [runs EXCEPT ![r] = Transition(@, {"quality_check"}, "completed")]
             /\ IF Matches(runs[r], {"quality_check"}) THEN EmitEvent(r, "progress") ELSE NoEvent
             /\ UNCHANGED <<run_steps, queue, qc_backedges>>
        ELSE IF seen.cancel_requested
        THEN /\ runs' = [runs EXCEPT ![r] = Transition(@, NonTerminal, "cancelled")]
             /\ NoEvent
             /\ UNCHANGED <<run_steps, queue, qc_backedges>>
        ELSE IF ~Matches(runs[r], ExpectedBefore(key, seen.status))
        THEN /\ NoEvent
             /\ UNCHANGED <<runs, run_steps, queue, qc_backedges>>
        ELSE IF next = "approval_outline"
        THEN /\ runs' = [runs EXCEPT ![r] = Transition(@, {"planning"}, "waiting_approval")]
             /\ run_steps' = [run_steps EXCEPT ![r] =
                                 Append(@, NewStep(next, "waiting_approval", 0, NextHash(step)))]
             /\ EmitEvent(r, "progress")
             /\ UNCHANGED <<queue, qc_backedges>>
        ELSE /\ Schedule(r, after, next, NextHash(step))
             /\ qc_backedges' = [qc_backedges EXCEPT ![r] =
                                   IF runs[r].status = "quality_check" /\ runs'[r].status = "rendering"
                                   THEN @ + 1 ELSE @]

\* Step boundary after a succeeded step, handled in one piece.
OrchestratorAdvance(r) ==
    /\ runs[r].status \in NonTerminal
    /\ HasStep(r)
    /\ LastStep(r).status = "succeeded"
    /\ AdvanceWrite(r, runs[r], LastStepId(r))
    /\ UNCHANGED <<response, calls, sub, orch, ir, plan, ui>>

FailureDecisionOneMore(step) ==
    IF step.error_code \in RetryOn(step.step_key) /\ step.attempt <= MaxAttempts(step.step_key)
    THEN "retry"
    ELSE IF step.error_code = "SCHEMA_INVALID" /\ OnSchemaFail(step.step_key) # NULL
    THEN "repair"
    ELSE "fatal"

\* Retry policy applied to a failed step.
FailureDecision(step) ==
    IF step.error_code \in RetryOn(step.step_key) /\ step.attempt < MaxAttempts(step.step_key)
    THEN "retry"
    ELSE IF step.error_code = "SCHEMA_INVALID" /\ OnSchemaFail(step.step_key) # NULL
    THEN "repair"
    ELSE "fatal"

FailedRunNoCode(run, step) == Transition(run, NonTerminal, "failed")

\* The run row after a terminal step failure: failed, with the step's error_code.
FailedRun(run, step) ==
    [Transition(run, NonTerminal, "failed") EXCEPT !.error_code = step.error_code]

\* Step boundary after a failed step: retry, repair step, or run failed.
OrchestratorOnFailure(r) ==
    /\ runs[r].status \in NonTerminal
    /\ HasStep(r)
    /\ LastStep(r).status = "failed"
    /\ LET step == LastStep(r)
           decision == FailureDecision(step)
       IN  IF decision = "fatal"
           THEN /\ runs' = [runs EXCEPT ![r] = FailedRun(@, step)]
                /\ NoEvent
                /\ UNCHANGED <<run_steps, queue>>
           ELSE IF runs[r].cancel_requested
           THEN /\ runs' = [runs EXCEPT ![r] = Transition(@, NonTerminal, "cancelled")]
                /\ NoEvent
                /\ UNCHANGED <<run_steps, queue>>
           ELSE IF decision = "retry"
           THEN /\ run_steps' = [run_steps EXCEPT ![r][LastStepId(r)] =
                                    [@ EXCEPT !.status = "queued", !.attempt = @ + 1,
                                              !.error_code = NULL]]
                /\ queue' = queue \cup {Job(r, LastStepId(r), step.step_key, step.attempt + 1)}
                /\ EmitEvent(r, "progress")
                /\ UNCHANGED runs
           ELSE Schedule(r, runs[r], OnSchemaFail(step.step_key), step.input_hash)
    /\ UNCHANGED <<response, qc_backedges, calls, sub, orch, ir, plan, ui>>

ApproveUnchecked(r) ==
    /\ Len(run_steps[r]) < MaxSteps
    /\ runs' = [runs EXCEPT ![r].status = "executing"]
    /\ run_steps' = [run_steps EXCEPT ![r] =
                        Append(@, NewStep("plan_slidespec", "queued", 1, 0))]
    /\ queue' = queue \cup {Job(r, LastStepId(r) + 1, "plan_slidespec", 1)}
    /\ EmitEvent(r, "progress")
    /\ response' = "OK"
    /\ UNCHANGED <<qc_backedges, calls, sub, orch, ir, plan, ui>>

ApprovableStale(r, seen) == seen.status = "waiting_approval"

\* The run is at its approval step.
Approvable(r, seen) ==
    /\ seen.status = "waiting_approval"
    /\ Matches(runs[r], {"waiting_approval"})
    /\ HasStep(r)
    /\ LastStep(r).step_key = "approval_outline"
    /\ LastStep(r).status = "waiting_approval"

\* Write of POST /runs/{run_id}/approve, decided on the run row `seen`: the
\* approval step succeeds, the run moves to executing, the next step is
\* enqueued; a run that is not at its approval step is not approvable.
ApproveWrite(r, seen) ==
    IF Approvable(r, seen)
    THEN /\ Len(run_steps[r]) < MaxSteps
         /\ runs' = [runs EXCEPT ![r] = Transition(@, {"waiting_approval"}, "executing")]
         /\ run_steps' = [run_steps EXCEPT ![r] =
                             Append([@ EXCEPT ![LastStepId(r)] =
                                         [@ EXCEPT !.status = "succeeded",
                                                   !.output_json =
                                                       OutputOf("approval_outline",
                                                                LastStep(r).input_hash)]],
                                    NewStep("plan_slidespec", "queued", 1,
                                            NextHash(LastStep(r))))]
         /\ queue' = queue \cup {Job(r, LastStepId(r) + 1, "plan_slidespec", 1)}
         /\ EmitEvent(r, "progress")
         /\ response' = "OK"
    ELSE /\ response' = "RUN_NOT_APPROVABLE"
         /\ NoEvent
         /\ UNCHANGED <<runs, run_steps, queue>>

\* POST /runs/{run_id}/approve, handled in one piece.
Approve(r) ==
    /\ ApproveWrite(r, runs[r])
    /\ UNCHANGED <<qc_backedges, calls, sub, orch, ir, plan, ui>>

CancelImmediate(run) ==
    [run EXCEPT !.cancel_requested = TRUE,
                !.status = IF @ \in NonTerminal THEN "cancelled" ELSE @]

\* The run row after POST /runs/{run_id}/cancel.
CancelRequested(run) == [run EXCEPT !.cancel_requested = TRUE]

\* POST /runs/{run_id}/cancel.
RequestCancel(r) ==
    /\ runs' = [runs EXCEPT ![r] = CancelRequested(@)]
    /\ NoEvent
    /\ UNCHANGED <<run_steps, queue, response, qc_backedges, calls, sub, orch, ir, plan, ui>>

\* Cancellation signal while the run waits for approval: no step is in flight.
HandleCancellation(r) ==
    /\ runs[r].status = "waiting_approval"
    /\ runs[r].cancel_requested
    /\ HasStep(r)
    /\ LastStep(r).status = "waiting_approval"
    /\ runs' = [runs EXCEPT ![r] = Transition(@, {"waiting_approval"}, "cancelled")]
    /\ run_steps' = [run_steps EXCEPT ![r][LastStepId(r)].status = "cancelled"]
    /\ NoEvent
    /\ UNCHANGED <<queue, response, qc_backedges, calls, sub, orch, ir, plan, ui>>

(***************************************************************************)
(* Specification of one run under the orchestrator                         *)
(***************************************************************************)
NoSub == [run_id |-> 0, connected |-> FALSE, after_seq |-> -1, delivered |-> <<>>]

\* Concurrent handler invocations: orchestrator instances and API calls.
Instances == {"a", "b"}

\* An invocation that holds nothing.
Idle == [pc |-> "idle", run_id |-> 0, step_id |-> 0, seen |-> NULL, reused |-> NULL]

NoOrch == [w \in Instances |-> Idle]

\* No IR, no LayoutPlan, no page loaded.
NoIr == [phase |-> "none"]

NoPlan == [stage |-> "none"]

NoUi == NULL

Init ==
    /\ \E gate \in BOOLEAN : runs = <<NewRun("o1", "u1", "k1", gate)>>
    /\ run_steps = << <<>> >>
    /\ queue = {}
    /\ run_events = <<>>
    /\ next_seq = <<0>>
    /\ response = "none"
    /\ qc_backedges = <<0>>
    /\ calls = <<>>
    /\ sub = NoSub
    /\ orch = NoOrch
    /\ ir = NoIr
    /\ plan = NoPlan
    /\ ui = NoUi

Next ==
    \/ \E r \in RunIds : StartOrchestration(r)
    \/ \E job \in queue : WorkerStart(job)
    \/ \E r \in RunIds : WorkerCancelCheck(r)
    \/ \E r \in RunIds : \E issues \in SUBSET IssueTypes : WorkerSucceed(r, issues)
    \/ \E r \in RunIds : \E class \in FailureClasses : WorkerFail(r, class)
    \/ \E r \in RunIds : OrchestratorAdvance(r)
    \/ \E r \in RunIds : OrchestratorOnFailure(r)
    \/ \E r \in RunIds : Approve(r)
    \/ \E r \in RunIds : RequestCancel(r)
    \/ \E r \in RunIds : HandleCancellation(r)

Spec == Init /\ [][Next]_vars


(***************************************************************************)
(* Run state machine properties                                            *)
(***************************************************************************)
Rank(status) ==
    CASE status = "created" -> 0
      [] status = "planning" -> 1
      [] status = "waiting_approval" -> 2
      [] status = "executing" -> 3
      [] status = "rendering" -> 4
      [] status = "quality_check" -> 5
      [] status = "completed" -> 6
      [] OTHER -> 7

LegalEdges ==
    {<<"created", "planning">>, <<"planning", "waiting_approval">>,
     <<"waiting_approval", "executing">>, <<"planning", "rendering">>,
     <<"executing", "rendering">>, <<"rendering", "quality_check">>,
     <<"quality_check", "rendering">>, <<"quality_check", "completed">>}
    \cup (NonTerminal \X {"failed", "cancelled"})

\* C1: every change of a run's status is one of the documented edges, and
\* the only edge that goes backward in the order created < planning <
\* waiting_approval < executing < rendering < quality_check < completed is
\* quality_check -> rendering.
RunEdgesLegal ==
    [][\A r \in RunIds :
          runs'[r].status # runs[r].status =>
             /\ <<runs[r].status, runs'[r].status>> \in LegalEdges
             /\ Rank(runs'[r].status) < Rank(runs[r].status) =>
                   (runs[r].status = "quality_check" /\ runs'[r].status = "rendering")]_vars

\* C1 witness: the backward edge has been taken and the run is rendering again.
BackEdgeTaken ==
    \E r \in RunIds : runs[r].status = "rendering" /\ qc_backedges[r] >= 1

StepsWithKey(r, key) == {i \in DOMAIN run_steps[r] : run_steps[r][i].step_key = key}

MaxOf(S) == CHOOSE x \in S : \A y \in S : y <= x

\* Issue list of the latest quality check of run r.
FinalQcIssues(r) ==
    run_steps[r][MaxOf(StepsWithKey(r, "quality_check_layout_plan"))].issues

\* C6: the number of quality_check -> rendering transitions of a run, and
\* the number of its fix_layout steps, never exceed max_fix_loops.
FixLoopBounded ==
    \A r \in RunIds :
        /\ qc_backedges[r] <= max_fix_loops
        /\ Cardinality(StepsWithKey(r, "fix_layout")) <= max_fix_loops

\* C6 witness: a run that has used the whole budget.
FixBudgetUsed ==
    \E r \in RunIds : qc_backedges[r] = max_fix_loops

\* C8: a completed run whose final quality check reported issues carries
\* needs_human_edit and has used all max_fix_loops iterations; a completed
\* run whose final quality check passed does not carry needs_human_edit.
CompletedOnlyWhenQcSettled ==
    \A r \in RunIds :
        runs[r].status = "completed" =>
            /\ StepsWithKey(r, "quality_check_layout_plan") # {}
            /\ ~QcPass(FinalQcIssues(r)) =>
                  (runs[r].needs_human_edit /\ runs[r].fix_loops = max_fix_loops
                     /\ qc_backedges[r] = max_fix_loops)
            /\ QcPass(FinalQcIssues(r)) => ~runs[r].needs_human_edit

\* C8 witness: a run completed with unresolved issues.
CompletedNeedsHumanEdit ==
    \E r \in RunIds : /\ runs[r].status = "completed"
                      /\ runs[r].needs_human_edit
                      /\ ~QcPass(FinalQcIssues(r))


(***************************************************************************)
(* Fair scheduling: the orchestrator handles every boundary, a queued job  *)
(* is picked by a worker, a running step ends.  Cancel requests, approve   *)
(* calls and a step's own cancel check are not forced.                     *)
(***************************************************************************)
OrchRuns == {1}

WorkerEnds(r) ==
    \/ \E issues \in SUBSET IssueTypes : WorkerSucceed(r, issues)
    \/ \E class \in FailureClasses : WorkerFail(r, class)

FairSpec ==
    /\ Spec
    /\ \A r \in OrchRuns :
          /\ WF_vars(StartOrchestration(r))
          /\ WF_vars(\E job \in queue : WorkerStart(job))
          /\ WF_vars(WorkerEnds(r))
          /\ WF_vars(OrchestratorAdvance(r))
          /\ WF_vars(OrchestratorOnFailure(r))
          /\ WF_vars(HandleCancellation(r))

\* C7: with no cancellation and no fatal step error, a run that has entered
\* quality_check eventually reaches completed, whatever the quality checks
\* report.
FixLoopCompletes ==
    \A r \in OrchRuns :
        ([]~runs[r].cancel_requested /\ [](runs[r].status # "failed"))
            => ((runs[r].status = "quality_check") ~> (runs[r].status = "completed"))

\* C7 witness: a run completed although every quality check reported issues.
CompletedAfterFailingChecks ==
    \E r \in RunIds :
        /\ runs[r].status = "completed"
        /\ ~runs[r].cancel_requested
        /\ Cardinality(StepsWithKey(r, "quality_check_layout_plan")) = max_fix_loops + 1
        /\ \A i \in StepsWithKey(r, "quality_check_layout_plan") :
              ~QcPass(run_steps[r][i].issues)


NextStepRemains(r) ==
    /\ runs[r].status \in NonTerminal
    /\ HasStep(r) =>
          /\ LastStep(r).status # "running"
          /\ ~(LastStep(r).status = "succeeded" /\ LastStep(r).step_key = "finalize")
          /\ ~(LastStep(r).status = "failed" /\ FailureDecision(LastStep(r)) = "fatal")

\* C10: a run is cancelled only after cancel_requested was set; a cancel
\* request on a non-terminal run leads to a terminal status; and when the
\* flag is set at a step boundary where a further step remains, the run
\* ends cancelled.
CancelLeadsToCancelled ==
    \A r \in OrchRuns :
        /\ [](runs[r].status = "cancelled" => runs[r].cancel_requested)
        /\ (runs[r].cancel_requested /\ runs[r].status \in NonTerminal)
              ~> (runs[r].status \in Terminal)
        /\ (runs[r].cancel_requested /\ NextStepRemains(r))
              ~> (runs[r].status = "cancelled")

\* C10 witness: the in-flight step succeeded, the next step was refused and
\* the run is cancelled.
NextStepRefused ==
    \E r \in RunIds : /\ runs[r].status = "cancelled"
                      /\ HasStep(r)
                      /\ LastStep(r).status = "succeeded"
                      /\ LastStep(r).step_key # "finalize"


(***************************************************************************)
(* Concurrent handlers: a completion may be delivered to two orchestrator  *)
(* instances, two approve calls may arrive together; each invocation reads *)
(* the run row and writes later.                                           *)
(***************************************************************************)
\* The step a completion handler asks to schedule, NULL when it asks for none.
RequestedStep(r, seen, i) ==
    LET step == run_steps[r][i]
        next == StepAfter(step.step_key, seen, step.issues)
    IN  IF \/ next = "approval_outline"
           \/ seen.cancel_requested
           \/ ~Matches(runs[r], ExpectedBefore(step.step_key, seen.status))
        THEN NULL
        ELSE next

\* An orchestrator instance receives the completion of the latest step and
\* reads the run row.
ReadCompletion(w, r) ==
    /\ orch[w].pc = "idle"
    /\ runs[r].status \in NonTerminal
    /\ HasStep(r)
    /\ LastStep(r).status = "succeeded"
    /\ orch' = [orch EXCEPT ![w] = [pc |-> "advance", run_id |-> r,
                                    step_id |-> LastStepId(r), seen |-> runs[r],
                                    reused |-> NULL]]
    /\ UNCHANGED <<runs, run_steps, queue, run_events, next_seq, response, qc_backedges, calls, sub, ir, plan, ui>>

\* The instance writes: conditional update of the run, schedule request.
WriteCompletion(w) ==
    /\ orch[w].pc = "advance"
    /\ LET r == orch[w].run_id
           i == orch[w].step_id
           seen == orch[w].seen
           req == RequestedStep(r, seen, i)
       IN  /\ AdvanceWrite(r, seen, i)
           /\ orch' = [orch EXCEPT ![w] =
                          [Idle EXCEPT !.reused =
                              IF req = NULL THEN NULL
                              ELSE ReusedOutput(r, req, NextHash(run_steps[r][i]))]]
    /\ UNCHANGED <<response, calls, sub, ir, plan, ui>>

\* An approve call arrives and reads the run row.
ReadApprove(w, r) ==
    /\ orch[w].pc = "idle"
    /\ orch' = [orch EXCEPT ![w] = [pc |-> "approve", run_id |-> r, step_id |-> 0,
                                    seen |-> runs[r], reused |-> NULL]]
    /\ UNCHANGED <<runs, run_steps, queue, run_events, next_seq, response, qc_backedges, calls, sub, ir, plan, ui>>

\* The approve call writes and answers.
WriteApprove(w) ==
    /\ orch[w].pc = "approve"
    /\ ApproveWrite(orch[w].run_id, orch[w].seen)
    /\ orch' = [orch EXCEPT ![w] = Idle]
    /\ UNCHANGED <<qc_backedges, calls, sub, ir, plan, ui>>

\* Jobs in the queue whose step was already picked up.
StaleJobs == {job \in queue : run_steps[job.run_id][job.step_id].status # "queued"}

\* The queue delivers at least once: the job of the running step is
\* delivered again (one redelivery outstanding at a time).
DeliverAgain(r) ==
    /\ HasStep(r)
    /\ LastStep(r).status = "running"
    /\ StaleJobs = {}
    /\ queue' = queue \cup {Job(r, LastStepId(r), LastStep(r).step_key, LastStep(r).attempt)}
    /\ NoEvent
    /\ UNCHANGED <<runs, run_steps, response, qc_backedges, calls, sub, orch, ir, plan, ui>>

\* A worker receives a job whose step is not queued: a step starts only
\* from queued, the job is dropped.
WorkerDiscard(job) ==
    /\ job \in queue
    /\ run_steps[job.run_id][job.step_id].status # "queued"
    /\ queue' = queue \ {job}
    /\ NoEvent
    /\ UNCHANGED <<runs, run_steps, response, qc_backedges, calls, sub, orch, ir, plan, ui>>

\* The queue is first in, first out: a job delivered again is received
\* before the job of a step enqueued after it.
WorkerStartNext(job) ==
    /\ StaleJobs = {}
    /\ WorkerStart(job)

NextRace ==
    \/ \E r \in RunIds : StartOrchestration(r)
    \/ \E job \in queue : WorkerStartNext(job)
    \/ \E r \in RunIds : WorkerCancelCheck(r)
    \/ \E r \in RunIds : \E issues \in SUBSET IssueTypes : WorkerSucceed(r, issues)
    \/ \E r \in RunIds : DeliverAgain(r)
    \/ \E job \in queue : WorkerDiscard(job)
    \/ \E w \in Instances : \E r \in RunIds : ReadCompletion(w, r)
    \/ \E w \in Instances : WriteCompletion(w)
    \/ \E w \in Instances : \E r \in RunIds : ReadApprove(w, r)
    \/ \E w \in Instances : WriteApprove(w)
    \/ \E r \in RunIds : RequestCancel(r)
    \/ \E r \in RunIds : HandleCancellation(r)

SpecRace == Init /\ [][NextRace]_vars

(***************************************************************************)
(* Approval gate properties                                                *)
(***************************************************************************)
\* C11: a run goes from waiting_approval to executing only in an approve call
\* on that run, and enters waiting_approval only from planning and only when
\* its workflow declares the approval gate.
ApprovalOnlyExplicit ==
    [][\A r \in RunIds :
          /\ (runs[r].status = "waiting_approval" /\ runs'[r].status = "executing") =>
                (Approve(r) /\ response' = "OK")
          /\ (runs[r].status # "waiting_approval" /\ runs'[r].status = "waiting_approval") =>
                (runs[r].status = "planning" /\ runs[r].require_outline_approval)
          /\ (runs[r].status # "executing" /\ runs'[r].status = "executing") =>
                runs[r].status = "waiting_approval"]_vars

\* C11 witness: a gated run was approved and its planning step then failed
\* and was retried, the run staying in executing.
ApprovedThenRetried ==
    \E r \in RunIds :
        /\ runs[r].require_outline_approval
        /\ runs[r].status = "executing"
        /\ LastStep(r).step_key = "plan_slidespec"
        /\ LastStep(r).attempt = 2


\* C12: an approve call on a run in waiting_approval marks the approval step
\* succeeded, moves the run to executing and enqueues the next step, once;
\* any other approve call, a racing second one included, is answered
\* RUN_NOT_APPROVABLE and changes neither the run, its steps nor the queue.
ApproveOnceOrRejected ==
    /\ [][\A w \in Instances :
            (orch[w].pc = "approve" /\ orch'[w].pc = "idle") =>
                LET r == orch[w].run_id
                    n == Len(run_steps[r])
                IN  IF /\ orch[w].seen.status = "waiting_approval"
                       /\ runs[r].status = "waiting_approval"
                    THEN /\ response' = "OK"
                         /\ runs'[r].status = "executing"
                         /\ Len(run_steps'[r]) = n + 1
                         /\ run_steps'[r][n].step_key = "approval_outline"
                         /\ run_steps'[r][n].status = "succeeded"
                         /\ run_steps'[r][n + 1].step_key = "plan_slidespec"
                         /\ run_steps'[r][n + 1].status = "queued"
                         /\ queue' = queue \cup {Job(r, n + 1, "plan_slidespec", 1)}
                         /\ Cardinality(queue') = Cardinality(queue) + 1
                    ELSE /\ response' = "RUN_NOT_APPROVABLE"
                         /\ runs' = runs
                         /\ run_steps' = run_steps
                         /\ queue' = queue]_vars
    /\ [](\A r \in RunIds : Cardinality(StepsWithKey(r, "plan_slidespec")) <= 1)

\* C12 witness: two approve calls read the run in waiting_approval; one has
\* approved it, the other has yet to write.
ApproveRaceLost ==
    \E w \in Instances :
        /\ orch[w].pc = "approve"
        /\ orch[w].seen.status = "waiting_approval"
        /\ runs[orch[w].run_id].status = "executing"
        /\ response = "OK"


(***************************************************************************)
(* Retry and failure properties                                            *)
(***************************************************************************)
\* The step failed with a class its policy retries.
RetryableFailure(step) ==
    step.status = "failed" /\ step.error_code \in RetryOn(step.step_key)

FailureSurfacesOnlyWhenTerminal ==
    /\ [](\A r \in RunIds : runs[r].status = "failed" => runs[r].error_code # NULL)
    /\ [][\A r \in RunIds :
            /\ \A i \in DOMAIN run_steps[r] :
                   LET step == run_steps[r][i]
                       step2 == run_steps'[r][i]
                   IN  (\/ step2.attempt # step.attempt
                        \/ step.status = "running" /\ step2.status = "failed") =>
                          /\ runs'[r] = runs[r]
                          /\ \A j \in DOMAIN run_steps[r] \ {i} :
                                 run_steps'[r][j] = run_steps[r][j]
                          /\ Len(run_steps'[r]) = Len(run_steps[r])
            /\ (runs[r].status # "failed" /\ runs'[r].status = "failed") =>
                   /\ HasStep(r)
                   /\ LastStep(r).status = "failed"
                   /\ ~(RetryableFailure(LastStep(r))
                          /\ LastStep(r).attempt < MaxAttempts(LastStep(r).step_key))
                   /\ ~(LastStep(r).error_code = "SCHEMA_INVALID"
                          /\ OnSchemaFail(LastStep(r).step_key) # NULL)
                   /\ runs'[r].error_code = LastStep(r).error_code
                   /\ run_steps' = run_steps]_vars

\* C20 witness: the plan timed out and was re-queued with attempt 2 while
\* the run is still planning and carries no error_code.
RetriedRunKeepsStatus ==
    \E r \in RunIds :
        /\ runs[r].status = "planning"
        /\ runs[r].error_code = NULL
        /\ LastStep(r).step_key = "plan_slidespec"
        /\ LastStep(r).status = "queued"
        /\ LastStep(r).attempt = 2


(***************************************************************************)
(* Step scheduling properties                                              *)
(***************************************************************************)
\* Instances of step `key` of run r that are queued or running.
InFlightOf(r, key) ==
    {i \in DOMAIN run_steps[r] :
        /\ run_steps[r][i].step_key = key
        /\ run_steps[r][i].status \in {"queued", "running"}}

StepOutputReused ==
    [][\A w \in Instances :
          (orch[w].pc = "advance" /\ orch'[w].pc = "idle") =>
              LET r == orch[w].run_id
                  key == RequestedStep(r, orch[w].seen, orch[w].step_id)
                  hash == NextHash(run_steps[r][orch[w].step_id])
                  same == {j \in DOMAIN run_steps[r] :
                              /\ run_steps[r][j].step_key = key
                              /\ run_steps[r][j].status = "succeeded"
                              /\ run_steps[r][j].input_hash = hash}
                  n == Len(run_steps[r])
              IN  key # NULL =>
                     /\ same # {} =>
                           /\ run_steps' = run_steps
                           /\ queue' = queue
                           /\ \E j \in same :
                                  /\ orch'[w].reused = run_steps[r][j].output_json
                                  /\ orch'[w].reused = OutputOf(key, hash)
                     /\ same = {} => orch'[w].reused = NULL
                     /\ (same = {} /\ InFlightOf(r, key) = {}) =>
                           /\ Len(run_steps'[r]) = n + 1
                           /\ run_steps'[r][n + 1].step_key = key
                           /\ run_steps'[r][n + 1].input_hash = hash
                           /\ run_steps'[r][n + 1].status = "queued"
                           /\ Job(r, n + 1, key, 1) \in queue']_vars

\* C16 witness: a repeated schedule request was answered with the stored
\* output of the succeeded step, and the step has one row only.
OutputWasReused ==
    \E w \in Instances : \E r \in RunIds : \E i \in DOMAIN run_steps[r] :
        /\ orch[w].pc = "idle"
        /\ orch[w].reused = run_steps[r][i].output_json
        /\ run_steps[r][i].status = "succeeded"
        /\ Cardinality(StepsWithKey(r, run_steps[r][i].step_key)) = 1


\* Run r has a succeeded instance of step `key` with input hash `hash`.
Succeeded(r, key, hash) ==
    \E j \in DOMAIN run_steps[r] :
        /\ run_steps[r][j].step_key = key
        /\ run_steps[r][j].status = "succeeded"
        /\ run_steps[r][j].input_hash = hash

\* Issue list of the quality check of run r on IR version `hash`.
QcIssuesOf(r, hash) ==
    LET j == CHOOSE j \in DOMAIN run_steps[r] :
                 /\ run_steps[r][j].step_key = "quality_check_layout_plan"
                 /\ run_steps[r][j].input_hash = hash
    IN  run_steps[r][j].issues

\* The prerequisites of step i of run r in the workflow have succeeded:
\* outline before the plan (and the approval when the gate is declared), an
\* IR from plan or repair before the first render, the previous fix before
\* a re-render, render before the check, the check before fix and finalize.
PrerequisitesSucceeded(r, i) ==
    LET key == run_steps[r][i].step_key
        hash == run_steps[r][i].input_hash
        planned == /\ Succeeded(r, "outline", 0)
                   /\ runs[r].require_outline_approval => Succeeded(r, "approval_outline", 0)
    IN  CASE key = "outline" -> TRUE
          [] key = "approval_outline" -> Succeeded(r, "outline", 0)
          [] key \in {"plan_slidespec", "repair_slidespec"} -> planned
          [] key = "render_plan" ->
                /\ planned
                /\ Succeeded(r, "plan_slidespec", 0) \/ Succeeded(r, "repair_slidespec", 0)
                /\ hash > 0 => Succeeded(r, "fix_layout", hash - 1)
          [] key = "quality_check_layout_plan" -> Succeeded(r, "render_plan", hash)
          [] OTHER -> Succeeded(r, "quality_check_layout_plan", hash)

\* The when predicate of step i of run r: the approval only with a declared
\* gate, the repair only after a schema failure of the plan, a fix only
\* after a failing check with budget left, finalize only after a passing
\* check or with the budget used.
WhenHolds(r, i) ==
    LET key == run_steps[r][i].step_key
        hash == run_steps[r][i].input_hash
    IN  CASE key = "approval_outline" -> runs[r].require_outline_approval
          [] key = "repair_slidespec" ->
                \E j \in StepsWithKey(r, "plan_slidespec") :
                    /\ run_steps[r][j].status = "failed"
                    /\ run_steps[r][j].error_code = "SCHEMA_INVALID"
          [] key = "fix_layout" ->
                ~QcPass(QcIssuesOf(r, hash)) /\ hash < max_fix_loops
          [] key = "finalize" ->
                QcPass(QcIssuesOf(r, hash)) \/ hash = max_fix_loops
          [] OTHER -> TRUE

\* C17: every queued or running step has all its prerequisites succeeded,
\* and no step exists whose when predicate is false.
ScheduledOnlyWhenReady ==
    \A r \in RunIds : \A i \in DOMAIN run_steps[r] :
        /\ run_steps[r][i].status \in {"queued", "running"} => PrerequisitesSucceeded(r, i)
        /\ WhenHolds(r, i)

\* C17 witness: a gated run whose plan was repaired runs the fix of its
\* second failing check.
SecondFixRuns ==
    \E r \in RunIds :
        /\ runs[r].require_outline_approval
        /\ StepsWithKey(r, "repair_slidespec") # {}
        /\ LastStep(r).step_key = "fix_layout"
        /\ LastStep(r).input_hash = 1
        /\ LastStep(r).status = "running"


\* C18: run status updates are conditional.  A handler whose run no longer
\* has the status it read writes nothing (only a cancellation it polled is
\* applied, from any non-terminal status); whatever handlers race, every
\* status change is a legal edge, a terminal status is never overwritten
\* and the fix-loop counter only counts up by one.
StatusUpdatesConditional ==
    /\ [][\A w \in Instances :
            (orch[w].pc \in {"advance", "approve"} /\ orch'[w].pc = "idle") =>
                LET r == orch[w].run_id
                IN  runs[r].status # orch[w].seen.status =>
                       /\ run_steps' = run_steps
                       /\ queue' = queue
                       /\ \/ runs'[r] = runs[r]
                          \/ /\ orch[w].pc = "advance"
                             /\ orch[w].seen.cancel_requested
                             /\ runs[r].status \in NonTerminal
                             /\ runs'[r] = [runs[r] EXCEPT !.status = "cancelled"]]_vars
    /\ [][\A r \in RunIds :
            /\ runs'[r].status # runs[r].status =>
                  <<runs[r].status, runs'[r].status>> \in LegalEdges
            /\ runs[r].status \in Terminal => runs'[r].status = runs[r].status
            /\ runs'[r].fix_loops \in {runs[r].fix_loops, runs[r].fix_loops + 1}
            /\ runs[r].cancel_requested => runs'[r].cancel_requested]_vars
    /\ [](\A r \in RunIds : qc_backedges[r] <= max_fix_loops)

\* C18 witness: a completion handler read the run before a cancellation
\* was requested and applied; the run is cancelled and the handler has yet
\* to write.
CompletionRacedCancel ==
    \E w \in Instances :
        /\ orch[w].pc = "advance"
        /\ ~orch[w].seen.cancel_requested
        /\ orch[w].seen.status \in NonTerminal
        /\ runs[orch[w].run_id].status = "cancelled"


\* Steps of the fix loop.
LoopKeys == {"render_plan", "quality_check_layout_plan", "fix_layout"}

\* Rows of run r that belong to the fix loop.
LoopSteps(r) == {i \in DOMAIN run_steps[r] : run_steps[r][i].step_key \in LoopKeys}

\* C19: at most one of render_plan, quality check and fix_layout of a run is
\* queued or running; no step of an iteration exists twice; every step of
\* the loop was started on the succeeded output of its predecessor, and a
\* render of iteration k + 1 only on the new IR of the succeeded fix_layout
\* of iteration k.
FixLoopSequential ==
    \A r \in RunIds :
        /\ Cardinality({i \in LoopSteps(r) :
                           run_steps[r][i].status \in {"queued", "running"}}) <= 1
        /\ \A i, j \in LoopSteps(r) :
               (/\ run_steps[r][i].step_key = run_steps[r][j].step_key
                /\ run_steps[r][i].input_hash = run_steps[r][j].input_hash) => i = j
        /\ \A i \in LoopSteps(r) :
               LET key == run_steps[r][i].step_key
                   hash == run_steps[r][i].input_hash
                   before == IF key = "fix_layout" THEN "quality_check_layout_plan"
                             ELSE IF key = "quality_check_layout_plan" THEN "render_plan"
                             ELSE "fix_layout"
                   k == IF key = "render_plan" THEN hash - 1 ELSE hash
               IN  (key = "render_plan" => hash > 0) =>
                      \E j \in 1..(i - 1) :
                          /\ run_steps[r][j].step_key = before
                          /\ run_steps[r][j].input_hash = k
                          /\ run_steps[r][j].status = "succeeded"
                          /\ run_steps[r][j].output_json = OutputOf(before, k)

\* C19 witness: the second iteration's check is in flight while a handler
\* of the first check's completion has yet to write.
SecondIterationRaced ==
    \E w \in Instances : \E r \in RunIds :
        /\ orch[w].pc = "advance"
        /\ orch[w].run_id = r
        /\ ~orch[w].seen.cancel_requested
        /\ run_steps[r][orch[w].step_id].step_key = "quality_check_layout_plan"
        /\ run_steps[r][orch[w].step_id].input_hash = 0
        /\ LastStep(r).step_key = "quality_check_layout_plan"
        /\ LastStep(r).input_hash = 1
        /\ LastStep(r).status = "running"


(***************************************************************************)
(* Step row properties                                                     *)
(***************************************************************************)
\* Step statuses after which a row is final.
StepFinal == {"succeeded", "skipped", "cancelled"}

\* Status moves of the worker contract: start, success, failure.
WorkerEdges == {<<"queued", "running">>, <<"running", "succeeded">>,
                <<"running", "failed">>}

\* The move a retry makes.
RetryEdge == <<"failed", "queued">>

\* Moves of the worker's cancel check, at job start and while running.
CancelEdges == {<<"queued", "cancelled">>, <<"running", "cancelled">>}

\* Moves of the approval step, which no worker executes.
ApprovalEdges == {<<"waiting_approval", "succeeded">>,
                  <<"waiting_approval", "cancelled">>}

\* Rows are kept, final rows stay as they are, status moves lie in `edges`,
\* attempt grows by one on a retry and not otherwise, output_json is
\* written on the move to succeeded and not otherwise.
StepRowsFollow(edges) ==
    \A r \in RunIds :
        /\ Len(run_steps'[r]) >= Len(run_steps[r])
        /\ \A i \in DOMAIN run_steps[r] :
              LET old == run_steps[r][i]
                  new == run_steps'[r][i]
              IN  /\ old.status \in StepFinal => new = old
                  /\ new.status # old.status =>
                        <<old.status, new.status>> \in edges
                  /\ new.attempt =
                        IF <<old.status, new.status>> = RetryEdge
                        THEN old.attempt + 1 ELSE old.attempt
                  /\ (new.output_json # old.output_json) <=>
                        (new.status = "succeeded" /\ old.status # "succeeded")
                  /\ (new.output_json # NULL) <=> (new.status = "succeeded")

EventsAfter(r, k) ==
    {i \in DOMAIN run_events : run_events[i].run_id = r /\ run_events[i].seq > k}

NextEventNewest(r, k) ==
    CHOOSE i \in EventsAfter(r, k) :
        \A j \in EventsAfter(r, k) : run_events[j].seq <= run_events[i].seq

\* The row the stream pushes next: the lowest seq above the cursor.
NextEventAfter(r, k) ==
    CHOOSE i \in EventsAfter(r, k) :
        \A j \in EventsAfter(r, k) : run_events[i].seq <= run_events[j].seq

\* Last-Event-ID of the subscriber: the id of the last message received.
LastEventId(s) ==
    IF s.delivered = <<>> THEN s.after_seq ELSE s.delivered[Len(s.delivered)].seq

\* A running step reports a log/progress event.
WorkerEmit(r, type) ==
    /\ HasStep(r)
    /\ LastStep(r).status = "running"
    /\ Len(run_events) < 2 * MaxRuns + MaxEvents
    /\ EmitEvent(r, type)
    /\ UNCHANGED <<runs, run_steps, queue, response, qc_backedges, calls, sub, orch, ir, plan, ui>>

\* First connection, with or without an after_seq cursor.
Subscribe(r, k) ==
    /\ sub.run_id = 0
    /\ sub' = [run_id |-> r, connected |-> TRUE, after_seq |-> k, delivered |-> <<>>]
    /\ UNCHANGED <<runs, run_steps, queue, run_events, next_seq, response, qc_backedges, calls, orch, ir, plan, ui>>

\* The server pushes the next event of the run to the subscriber.
Deliver ==
    /\ sub.connected
    /\ EventsAfter(sub.run_id, LastEventId(sub)) # {}
    /\ sub' = [sub EXCEPT !.delivered =
                  Append(@, run_events[NextEventAfter(sub.run_id, LastEventId(sub))])]
    /\ UNCHANGED <<runs, run_steps, queue, run_events, next_seq, response, qc_backedges, calls, orch, ir, plan, ui>>

\* The connection drops.
Disconnect ==
    /\ sub.connected
    /\ sub' = [sub EXCEPT !.connected = FALSE]
    /\ UNCHANGED <<runs, run_steps, queue, run_events, next_seq, response, qc_backedges, calls, orch, ir, plan, ui>>

\* Client reconnects with Last-Event-ID, or with an earlier after_seq.
Reconnect(k) ==
    /\ sub.run_id # 0
    /\ ~sub.connected
    /\ k <= LastEventId(sub)
    /\ sub' = [sub EXCEPT !.connected = TRUE, !.after_seq = k, !.delivered = <<>>]
    /\ UNCHANGED <<runs, run_steps, queue, run_events, next_seq, response, qc_backedges, calls, orch, ir, plan, ui>>

\* Every run has been started and its first step is running.
InitLog ==
    /\ runs = [r \in 1..MaxRuns |->
                  [NewRun("o1", "u1", NULL, FALSE) EXCEPT !.status = "planning"]]
    /\ run_steps = [r \in 1..MaxRuns |-> <<NewStep("outline", "running", 1, 0)>>]
    /\ queue = {}
    /\ run_events = [i \in 1..(2 * MaxRuns) |->
                        IF i <= MaxRuns
                        THEN [run_id |-> i, seq |-> 0, event_type |-> "progress"]
                        ELSE [run_id |-> i - MaxRuns, seq |-> 1, event_type |-> "log"]]
    /\ next_seq = [r \in 1..MaxRuns |-> 2]
    /\ response = "none"
    /\ qc_backedges = [r \in 1..MaxRuns |-> 0]
    /\ calls = <<>>
    /\ sub = NoSub
    /\ orch = NoOrch
    /\ ir = NoIr
    /\ plan = NoPlan
    /\ ui = NoUi

NextLog ==
    \/ \E r \in RunIds : \E type \in {"log", "progress"} : WorkerEmit(r, type)
    \/ \E r \in RunIds : \E k \in -1..next_seq[r] : Subscribe(r, k)
    \/ Deliver
    \/ Disconnect
    \/ \E k \in -1..(MaxEvents + 1) : Reconnect(k)

SpecLog == InitLog /\ [][NextLog]_vars

\* Events of run r in insertion order.
EventsOf(r) == SelectSeq(run_events, LAMBDA e : e.run_id = r)

SubscriberInOrder ==
    sub.run_id # 0 =>
        \A i \in DOMAIN sub.delivered :
            /\ sub.delivered[i].run_id = sub.run_id
            /\ sub.delivered[i].seq = sub.after_seq + i
            /\ \E j \in DOMAIN run_events : run_events[j] = sub.delivered[i]

\* C4 witness: a subscription with a cursor that has received several
\* events while other events of the run were still pending.
DeliveredFromCursor ==
    /\ sub.connected
    /\ sub.after_seq >= 0
    /\ Len(sub.delivered) >= 2
    /\ EventsAfter(sub.run_id, LastEventId(sub)) # {}

\* s is an initial segment of t.
IsPrefix(s, t) ==
    /\ Len(s) <= Len(t)
    /\ \A i \in DOMAIN s : s[i] = t[i]

RECURSIVE RowsBySeq(_, _, _, _)
\* The rows of run r with seq in k..top, by seq.
RowsBySeq(events, r, k, top) ==
    IF k > top THEN <<>>
    ELSE SelectSeq(events, LAMBDA e : e.run_id = r /\ e.seq = k)
            \o RowsBySeq(events, r, k + 1, top)

\* Replay of the rows `events` for run r from seq = 0: the rows of the run
\* with seq >= 0, by seq.
ReplayOf(events, r) ==
    LET seqs == {events[j].seq : j \in {i \in DOMAIN events : events[i].run_id = r}}
    IN  IF seqs = {} THEN <<>> ELSE RowsBySeq(events, r, 0, MaxOf(seqs))

Replay(r) == ReplayOf(run_events, r)

\* C21: the event log is append-only: in every step the stored event
\* sequence is a prefix of the sequence after the step, and for every run
\* the replay from seq = 0 before the step is a prefix of the replay from
\* seq = 0 after it.
EventLogAppendOnly ==
    [][run_events' # run_events =>
          /\ IsPrefix(run_events, run_events')
          /\ \A r \in RunIds :
                LET before == ReplayOf(run_events, r)
                    after == ReplayOf(run_events', r)
                IN  IsPrefix(before, after)]_vars

\* C21 witness: a subscriber replaying from seq = 0 has received three
\* events and the log has since grown by events of both runs.
ReplayedWhileLogGrew ==
    /\ sub.run_id # 0
    /\ sub.after_seq = -1
    /\ Len(sub.delivered) >= 3
    /\ IsPrefix(sub.delivered, Replay(sub.run_id))
    /\ Len(Replay(sub.run_id)) > Len(sub.delivered)
    /\ \E i \in DOMAIN run_events :
          run_events[i].run_id # sub.run_id /\ run_events[i].seq >= 2


(***************************************************************************)
(* Run creation: POST /runs with Idempotency-Key                           *)
(***************************************************************************)
\* Runs holding the triple (org_id, created_by, idempotency_key).
RunsWithKey(org, user, key) ==
    {r \in DOMAIN runs : /\ runs[r].org_id = org
                         /\ runs[r].created_by = user
                         /\ runs[r].idempotency_key = key}

NoUniqueIndex(org, user, key) == FALSE

\* UNIQUE(org_id, created_by, idempotency_key): a second row with the same
\* triple is rejected; rows without a key never conflict.
ViolatesUnique(org, user, key) ==
    key # NULL /\ RunsWithKey(org, user, key) # {}

\* The existing run of the triple.
ExistingRun(org, user, key) == CHOOSE r \in RunsWithKey(org, user, key) : TRUE

\* The server looks the key up: an existing run is returned at once.
CreateLookup(c) ==
    /\ calls[c].pc = "lookup"
    /\ LET org == calls[c].org_id
           user == calls[c].user_id
           key == calls[c].idempotency_key
       IN  IF key # NULL /\ RunsWithKey(org, user, key) # {}
           THEN calls' = [calls EXCEPT ![c] =
                             [@ EXCEPT !.pc = "done", !.via = "lookup",
                                       !.run_id = ExistingRun(org, user, key)]]
           ELSE calls' = [calls EXCEPT ![c].pc = "insert"]
    /\ UNCHANGED <<runs, run_steps, queue, run_events, next_seq, response, qc_backedges, sub, orch, ir, plan, ui>>

\* The server inserts the run row; on a unique violation (a racing call
\* inserted first) the existing run is returned.
CreateInsert(c) ==
    /\ calls[c].pc = "insert"
    /\ Len(runs) < MaxCalls
    /\ LET org == calls[c].org_id
           user == calls[c].user_id
           key == calls[c].idempotency_key
       IN  IF ViolatesUnique(org, user, key)
           THEN /\ calls' = [calls EXCEPT ![c] =
                                [@ EXCEPT !.pc = "done", !.via = "conflict",
                                          !.run_id = ExistingRun(org, user, key)]]
                /\ UNCHANGED <<runs, run_steps, next_seq, qc_backedges>>
           ELSE /\ runs' = Append(runs, NewRun(org, user, key, FALSE))
                /\ run_steps' = Append(run_steps, <<>>)
                /\ next_seq' = Append(next_seq, 0)
                /\ qc_backedges' = Append(qc_backedges, 0)
                /\ calls' = [calls EXCEPT ![c] =
                                [@ EXCEPT !.pc = "done", !.via = "insert",
                                          !.run_id = Len(runs) + 1]]
    /\ UNCHANGED <<queue, run_events, response, sub, orch, ir, plan, ui>>

InitCreate ==
    /\ runs = <<>>
    /\ run_steps = <<>>
    /\ queue = {}
    /\ run_events = <<>>
    /\ next_seq = <<>>
    /\ response = "none"
    /\ qc_backedges = <<>>
    /\ calls \in [1..MaxCalls ->
                    [org_id : Orgs, user_id : Users, idempotency_key : Keys \cup {NULL},
                     pc : {"lookup"}, via : {NULL}, run_id : {0}]]
    /\ sub = NoSub
    /\ orch = NoOrch
    /\ ir = NoIr
    /\ plan = NoPlan
    /\ ui = NoUi

NextCreate ==
    \/ \E c \in DOMAIN calls : CreateLookup(c)
    \/ \E c \in DOMAIN calls : CreateInsert(c)

SpecCreate == InitCreate /\ [][NextCreate]_vars

SameTriple(a, b) ==
    /\ a.org_id = b.org_id
    /\ a.user_id = b.user_id
    /\ a.idempotency_key = b.idempotency_key

\* C5: run creation is idempotent per (org, creator, idempotency_key): at
\* most one run exists per triple, every finished call with a key returns
\* the run of its triple, two finished calls return the same run_id exactly
\* when their triples are equal.
CreateIdempotent ==
    /\ \A c \in DOMAIN calls :
          (calls[c].pc = "done" /\ calls[c].idempotency_key # NULL) =>
              RunsWithKey(calls[c].org_id, calls[c].user_id, calls[c].idempotency_key)
                  = {calls[c].run_id}
    /\ \A c, d \in DOMAIN calls :
          (/\ calls[c].pc = "done" /\ calls[d].pc = "done"
           /\ calls[c].idempotency_key # NULL /\ calls[d].idempotency_key # NULL) =>
              (SameTriple(calls[c], calls[d]) <=> calls[c].run_id = calls[d].run_id)

\* C5 witness: two calls with the same triple raced; the loser's insert hit
\* the unique index and returned the winner's run, a third call with another
\* creator got its own run.
RacingCreateResolved ==
    \E c, d, e \in DOMAIN calls :
        /\ calls[c].via = "insert" /\ calls[d].via = "conflict"
        /\ calls[c].run_id = calls[d].run_id
        /\ calls[e].pc = "done"
        /\ calls[e].idempotency_key = calls[c].idempotency_key
        /\ calls[e].user_id # calls[c].user_id
        /\ calls[e].run_id # calls[c].run_id

(***************************************************************************)
(* SlideSpec IR, text measurement and layout                               *)
(***************************************************************************)
MaxText == 56
MaxRegen == 1

\* Font sizes, min_font_pt hints and content kinds of the slide under layout.
FontSizes == {14, 17, 18}

MinFonts == {12, 14}

Kinds == {"bullets", "paragraph"}

Presets == {"one_column", "two_column"}

\* Step by which the font is reduced, in pt.
FontDecrement == 2

\* lineHeight in hundredths of the font size, before and after tightening.
LineHeightNormal == 135

LineHeightTight == 125

TitleFontPt == 20

\* Slot geometry in pt: content width of a column and of the page, height of
\* the title band and of the content band, padding and its lower tolerance.
ColumnWidth == 18

PageWidth == 36

TitleHeight == 30

BodyHeight == 96

DefaultPadding == 21

MinPadding == 6

Element(eid, kind, font, minpt, shrink, text) ==
    [element_id |-> eid, kind |-> kind, font_size |-> font,
     min_font_pt |-> minpt, allow_shrink |-> shrink, text |-> text,
     line_height |-> LineHeightNormal]

TitleElement(eid) == Element(eid, "title", TitleFontPt, TitleFontPt, FALSE, 1)

Slide(sid, layout, body) ==
    [slide_id |-> sid, layout_id |-> layout, padding |-> DefaultPadding,
     continuation |-> FALSE,
     elements |-> <<TitleElement(sid \o "_e1"), body>>]

\* Ids of the slides and of the elements of an IR.
SlideIds(slides) == {slides[i].slide_id : i \in DOMAIN slides}

ElementIds(slides) ==
    {slides[i].elements[j].element_id :
        i \in DOMAIN slides, j \in {1, 2}}

\* Position of the slide with id sid.
SlideIndex(slides, sid) == CHOOSE i \in DOMAIN slides : slides[i].slide_id = sid

\* Position of the element with id eid on its slide.
ElementIndex(slide, eid) ==
    CHOOSE j \in DOMAIN slide.elements : slide.elements[j].element_id = eid

\* measureText(): average glyph width of half the font size.
CharsPerLine(font, width) == (2 * width) \div font

NeededLines(text, font, width) ==
    (text + CharsPerLine(font, width) - 1) \div CharsPerLine(font, width)

RequiredHeight(el, width) ==
    NeededLines(el.text, el.font_size, width)
        * ((el.font_size * el.line_height) \div 100)

\* Slot of an element under the slide's layout preset.
SlotWidth(slide) ==
    IF slide.layout_id = "two_column" THEN ColumnWidth ELSE PageWidth

SlotHeight(slide, el) ==
    IF el.kind = "title" THEN TitleHeight ELSE BodyHeight - slide.padding

\* The text of el needs more height than its box has.
Overflows(slide, el) ==
    RequiredHeight(el, SlotWidth(slide)) > SlotHeight(slide, el)

\* LayoutPlan entries of one slide: box, resolved style, text metrics.
SlideBoxes(slide) ==
    [j \in DOMAIN slide.elements |->
        [slide_id |-> slide.slide_id,
         element_id |-> slide.elements[j].element_id,
         font_size |-> slide.elements[j].font_size,
         min_font_pt |-> slide.elements[j].min_font_pt,
         box_height |-> SlotHeight(slide, slide.elements[j]),
         required_height |-> RequiredHeight(slide.elements[j], SlotWidth(slide))]]

RECURSIVE LayoutPlan(_)
\* Layout Engine: the LayoutPlan of a deck, slide by slide.
LayoutPlan(slides) ==
    IF slides = <<>> THEN <<>>
    ELSE SlideBoxes(Head(slides)) \o LayoutPlan(Tail(slides))

\* Quality Checker on text boxes: overflow and minimum font.
OverflowIssue(box) ==
    [type |-> "overflow", slide_id |-> box.slide_id,
     element_id |-> box.element_id, severity |-> "high"]

MinFontIssue(box) ==
    [type |-> "min_font", slide_id |-> box.slide_id,
     element_id |-> box.element_id, severity |-> "medium"]

TextIssues(boxes) ==
    LET over == SelectSeq(boxes, LAMBDA b : b.required_height > b.box_height)
        small == SelectSeq(boxes, LAMBDA b : b.font_size < b.min_font_pt)
    IN  [i \in DOMAIN over |-> OverflowIssue(over[i])]
            \o [i \in DOMAIN small |-> MinFontIssue(small[i])]

\* Members of a list.
Range(s) == {s[i] : i \in DOMAIN s}

(***************************************************************************)
(* Fix Engine                                                              *)
(***************************************************************************)
Tiers == 1..6

LegalSizeAny(el, size) == size > 0

\* A size the font of el may be set to.
LegalSize(el, size) == size >= el.min_font_pt

RECURSIVE ShrunkSizeLowest(_, _, _)
ShrunkSizeLowest(el, width, height) ==
    IF ~LegalSize(el, el.font_size - FontDecrement) THEN el.font_size
    ELSE ShrunkSizeLowest([el EXCEPT !.font_size = @ - FontDecrement], width, height)

RECURSIVE ShrunkSize(_, _, _)
\* Tier 1: the font is reduced step by step and re-measured after each
\* step; it stops at the first size that fits, or at the last legal size.
ShrunkSize(el, width, height) ==
    IF ~LegalSize(el, el.font_size - FontDecrement) THEN el.font_size
    ELSE LET smaller == [el EXCEPT !.font_size = @ - FontDecrement]
         IN  IF RequiredHeight(smaller, width) <= height
             THEN smaller.font_size
             ELSE ShrunkSize(smaller, width, height)

\* Text the summarization step returns for a text of length n when asked
\* for length k: shorter than the source.
Summarized(n, k) == IF k < n THEN k ELSE n - 1

\* Continuation slide of a split: fresh slide_id and element_ids.
ContinuationSlide(slide, j, sid, text) ==
    [slide EXCEPT !.slide_id = sid,
                  !.continuation = TRUE,
                  !.elements = <<TitleElement(sid \o "_e1"),
                                 [slide.elements[j] EXCEPT
                                     !.element_id = sid \o "_e2",
                                     !.text = text]>>]

\* Tier t can change element j of the slide.
Applicable(t, slide, j) ==
    LET el == slide.elements[j]
    IN  CASE t = 1 -> el.allow_shrink /\ LegalSize(el, el.font_size - FontDecrement)
          [] t = 2 -> el.line_height > LineHeightTight
          [] t = 3 -> slide.padding > MinPadding
          [] t = 4 -> slide.layout_id = "two_column"
          [] t = 5 -> el.kind = "bullets" /\ el.text >= 2
          [] t = 6 -> el.text >= 2

\* The slide after tier t acted on element j, with the slides it added.
ApplyTier(t, slide, j, k, sid) ==
    LET el == slide.elements[j]
    IN  CASE t = 1 ->
               [slide |-> [slide EXCEPT !.elements[j].font_size =
                              ShrunkSize(el, SlotWidth(slide), SlotHeight(slide, el))],
                added |-> <<>>]
          [] t = 2 ->
               [slide |-> [slide EXCEPT !.elements[j].line_height = LineHeightTight],
                added |-> <<>>]
          [] t = 3 ->
               [slide |-> [slide EXCEPT !.padding = MinPadding], added |-> <<>>]
          [] t = 4 ->
               [slide |-> [slide EXCEPT !.layout_id = "one_column"], added |-> <<>>]
          [] t = 5 ->
               [slide |-> [slide EXCEPT !.elements[j].text = (el.text + 1) \div 2],
                added |-> <<ContinuationSlide(slide, j, sid, el.text \div 2)>>]
          [] t = 6 ->
               [slide |-> [slide EXCEPT !.elements[j].text = Summarized(el.text, k)],
                added |-> <<>>]

NextTierSummarizeEarly(t) == IF t = 1 THEN 6 ELSE t + 1

\* Strategy order: the tier after tier t.
NextTier(t) == t + 1

PatchEntry(slide, j, t, outcome) ==
    [slide_id |-> slide.slide_id, element_id |-> slide.elements[j].element_id,
     tier |-> t, outcome |-> outcome]

RECURSIVE FixFrom(_, _, _, _, _, _, _)
\* Strategies from tier t on for the overflow of element j: a tier that
\* cannot act is passed over, a tier that acts is followed by a new
\* measurement, and the first tier that ends the overflow ends the work.
FixFrom(t, slide, added, log, j, k, sid) ==
    IF t \notin Tiers THEN [slide |-> slide, added |-> added, log |-> log]
    ELSE IF ~Applicable(t, slide, j)
    THEN FixFrom(NextTier(t), slide, added,
                 Append(log, PatchEntry(slide, j, t, "not_applicable")), j, k, sid)
    ELSE LET r == ApplyTier(t, slide, j, k, sid)
         IN  IF ~Overflows(r.slide, r.slide.elements[j])
             THEN [slide |-> r.slide, added |-> added \o r.added,
                   log |-> Append(log, PatchEntry(slide, j, t, "resolved"))]
             ELSE FixFrom(NextTier(t), r.slide, added \o r.added,
                          Append(log, PatchEntry(slide, j, t, "insufficient")),
                          j, k, sid)

FreshSlideIdReuse(slides) == "s" \o ToString(Len(slides))

\* slide_id of the next slide added to the deck.
FreshSlideId(slides) == "s" \o ToString(Len(slides) + 1)

\* The deck with slide i replaced and the added slides put right after it.
Spliced(slides, i, slide, added) ==
    SubSeq(slides, 1, i - 1) \o <<slide>> \o added
        \o SubSeq(slides, i + 1, Len(slides))

RECURSIVE FixLayout(_, _, _, _)
\* run.step.fix_layout: the overflow issues of the QC report are worked off
\* in order; the result is the new IR and the patch record.
FixLayout(slides, issues, patch, k) ==
    IF issues = <<>> THEN [slides |-> slides, patch |-> patch]
    ELSE IF Head(issues).type # "overflow"
    THEN FixLayout(slides, Tail(issues), patch, k)
    ELSE LET i == SlideIndex(slides, Head(issues).slide_id)
             j == ElementIndex(slides[i], Head(issues).element_id)
             r == FixFrom(1, slides[i], <<>>, <<>>, j, k, FreshSlideId(slides))
         IN  FixLayout(Spliced(slides, i, r.slide, r.added), Tail(issues),
                       patch \o r.log, k)

(***************************************************************************)
(* Overlap diagnostics of the Layout Engine and the overlap check of QC    *)
(***************************************************************************)
MaxCoord == 7

\* Widths and heights of the sibling boxes laid out, a zero-width box among
\* them, and the vertical offsets they are placed at.
BoxSizes == {<<0, 5>>, <<4, 5>>, <<5, 10>>, <<6, 10>>, <<7, 10>>}

YOffsets == {0, 4, 9, 13}

\* Overlap threshold of QC in percent.
OverlapThresholdPct == 2

BBox(eid, x, y, size) ==
    [element_id |-> eid, x |-> x, y |-> y, w |-> size[1], h |-> size[2]]

Area(box) == box.w * box.h

Smaller(m, n) == IF m <= n THEN m ELSE n

Larger(m, n) == IF m >= n THEN m ELSE n

\* Area of the intersection of two axis-aligned boxes.
IntersectionArea(a, b) ==
    LET w == Smaller(a.x + a.w, b.x + b.w) - Larger(a.x, b.x)
        h == Smaller(a.y + a.h, b.y + b.h) - Larger(a.y, b.y)
    IN  IF w > 0 /\ h > 0 THEN w * h ELSE 0

overlap_ratio_of_first(a, b) ==
    IF Area(a) = 0 \/ Area(b) = 0
    THEN [error |-> TRUE, num |-> 0, den |-> 1]
    ELSE [error |-> FALSE, num |-> IntersectionArea(a, b), den |-> Area(a)]

\* overlap_ratio of a sibling pair as the fraction num / den: intersection
\* area over the area of the smaller box; a zero-area box is an error.
overlap_ratio(a, b) ==
    IF Area(a) = 0 \/ Area(b) = 0
    THEN [error |-> TRUE, num |-> 0, den |-> 1]
    ELSE [error |-> FALSE, num |-> IntersectionArea(a, b),
          den |-> Smaller(Area(a), Area(b))]

RECURSIVE SiblingPairs(_, _, _)
\* The pairs <<i, j>>, i < j, of n siblings from <<i, j>> on, each once.
SiblingPairs(i, j, n) ==
    IF i >= n THEN <<>>
    ELSE IF j > n THEN SiblingPairs(i + 1, i + 2, n)
    ELSE << <<i, j>> >> \o SiblingPairs(i, j + 1, n)

\* Slide diagnostics: one entry per sibling pair.
Overlaps(bboxes) ==
    LET pairs == SiblingPairs(1, 2, Len(bboxes))
    IN  [k \in DOMAIN pairs |->
            [a |-> bboxes[pairs[k][1]].element_id,
             b |-> bboxes[pairs[k][2]].element_id,
             overlap_ratio |-> overlap_ratio(bboxes[pairs[k][1]], bboxes[pairs[k][2]])]]

ExceedsThreshold(ratio) == 100 * ratio.num > OverlapThresholdPct * ratio.den

\* The ratio is at or above the threshold.
ReachesThreshold(ratio) == 100 * ratio.num >= OverlapThresholdPct * ratio.den

OverlapIssue(entry) ==
    [type |-> "overlap", slide_id |-> "s1", severity |-> "medium",
     details |-> entry]

\* Quality Checker on the slide diagnostics: overlap.
OverlapIssues(overlaps) ==
    LET bad == SelectSeq(overlaps,
                   LAMBDA e : ~e.overlap_ratio.error /\ ReachesThreshold(e.overlap_ratio))
    IN  [i \in DOMAIN bad |-> OverlapIssue(bad[i])]

\* Issue list of a QC report.
QcIssues(p) == TextIssues(p.boxes) \o OverlapIssues(p.overlaps)


(***************************************************************************)
(* Specification of the render / quality check / fix loop on one IR        *)
(***************************************************************************)
\* The run tables, untouched by layout work.
backend == <<runs, run_steps, queue, run_events, next_seq, response,
             qc_backedges, calls, sub, orch>>

NoBackend ==
    /\ runs = <<>>
    /\ run_steps = <<>>
    /\ queue = {}
    /\ run_events = <<>>
    /\ next_seq = <<>>
    /\ response = "none"
    /\ qc_backedges = <<>>
    /\ calls = <<>>
    /\ sub = NoSub
    /\ orch = NoOrch

\* Text lengths a regenerated slide comes back with.
RegenTexts == {3, MaxText}

\* Lengths the summarization step answers with: a short text, or one barely
\* shorter than its source.
SummaryLengths == {4, MaxText}

\* run.step.render_plan: the LayoutPlan is computed from the IR.
RenderPlan ==
    /\ ir.phase = "render"
    /\ plan' = [boxes |-> LayoutPlan(ir.slides), overlaps |-> <<>>,
                issues |-> <<>>, pass |-> FALSE]
    /\ ir' = [ir EXCEPT !.phase = "quality_check"]
    /\ UNCHANGED <<backend, ui>>

\* run.step.quality_check_layout_plan on the LayoutPlan, and what the
\* orchestrator does with the report.
QualityCheck ==
    /\ ir.phase = "quality_check"
    /\ LET issues == QcIssues(plan)
           decision == QcDecision(Range(issues), ir.fix_loops)
       IN  /\ plan' = [plan EXCEPT !.issues = issues,
                                   !.pass = QcPass(Range(issues))]
           /\ ir' = [ir EXCEPT
                       !.phase = IF decision = "fix_layout" THEN "fix_layout"
                                 ELSE "completed",
                       !.needs_human_edit = (decision = "needs_human_edit")]
    /\ UNCHANGED <<backend, ui>>

\* run.step.fix_layout on the IR and the issues of the QC report; k is the
\* length the summarization step answers with when it is called.
FixLayoutStep(k) ==
    /\ ir.phase = "fix_layout"
    /\ LET r == FixLayout(ir.slides, plan.issues, <<>>, k)
       IN  ir' = [ir EXCEPT !.slides = r.slides,
                            !.patch = r.patch,
                            !.fix_loops = @ + 1,
                            !.phase = "render"]
    /\ UNCHANGED <<backend, plan, ui>>

\* POST /runs/{run_id}/regenerate with scope slide sid: the target slide's
\* content is replaced, the rest of the SlideSpec is kept.
Regenerate(sid, text) ==
    /\ ir.phase = "completed"
    /\ ir.regenerated < MaxRegen
    /\ sid \in SlideIds(ir.slides)
    /\ LET i == SlideIndex(ir.slides, sid)
       IN  ir' = [ir EXCEPT !.slides[i].elements[2].text = text,
                            !.patch = <<>>,
                            !.fix_loops = 0,
                            !.needs_human_edit = FALSE,
                            !.regenerated = @ + 1,
                            !.phase = "render"]
    /\ UNCHANGED <<backend, plan, ui>>

\* A validated two-slide SlideSpec: the first slide's body varies, every
\* font is at or above its min_font_pt.
InitFix ==
    /\ NoBackend
    /\ \E layout \in Presets, kind \in Kinds, font \in FontSizes,
          minpt \in MinFonts, shrink \in BOOLEAN, text \in 1..MaxText :
          /\ font >= minpt
          /\ ir = [slides |->
                      <<Slide("s1", layout,
                              Element("s1_e2", kind, font, minpt, shrink, text)),
                        Slide("s2", "one_column",
                              Element("s2_e2", "paragraph", 14, 12, TRUE, 5))>>,
                   phase |-> "render", fix_loops |-> 0,
                   needs_human_edit |-> FALSE, patch |-> <<>>,
                   regenerated |-> 0]
    /\ plan = NoPlan
    /\ ui = NoUi

NextFix ==
    \/ RenderPlan
    \/ QualityCheck
    \/ \E k \in SummaryLengths : FixLayoutStep(k)
    \/ \E sid \in {"s1", "s2"} : \E text \in RegenTexts : Regenerate(sid, text)

SpecFix == InitFix /\ [][NextFix]_vars

(***************************************************************************)
(* Fix Engine properties                                                   *)
(***************************************************************************)
\* The step is a run of the Fix Engine.
FixStep == ir.phase = "fix_layout" /\ ir'.phase = "render"

\* Overflow issues the Fix Engine is called with.
OverflowIssues == SelectSeq(plan.issues, LAMBDA q : q.type = "overflow")

\* Slide and element an issue points at, in a deck.
SlideOf(slides, q) == slides[SlideIndex(slides, q.slide_id)]

ElementOf(slides, q) ==
    SlideOf(slides, q).elements[ElementIndex(SlideOf(slides, q), q.element_id)]

\* Patch entries of the element of an issue.
PatchOf(patch, q) ==
    SelectSeq(patch, LAMBDA e : e.slide_id = q.slide_id /\ e.element_id = q.element_id)

\* Sizes below the current one that the decrement reaches without passing
\* min_font_pt.
DecrementSizes(el) ==
    {s \in el.min_font_pt..(el.font_size - 1) :
        \E n \in 1..el.font_size : s = el.font_size - n * FontDecrement}

\* Of these, the sizes at which the text fits its box.
FittingSizes(slide, el) ==
    {s \in DecrementSizes(el) : ~Overflows(slide, [el EXCEPT !.font_size = s])}

\* Every font of the deck is at or above its min_font_pt.
FontsLegal(slides) ==
    \A i \in DOMAIN slides : \A j \in DOMAIN slides[i].elements :
        slides[i].elements[j].font_size >= slides[i].elements[j].min_font_pt

\* C23: every IR the Fix Engine produces has every font at or above its
\* min_font_pt; when shrinking is allowed and no size that the decrement
\* reaches in [min_font_pt, current) ends the overflow, the font is left at
\* the current size or at one of these sizes, tier 1 is recorded as not
\* having resolved the issue, and the engine goes on to tier 2.
FontNeverBelowMin ==
    [][FixStep =>
        /\ FontsLegal(ir'.slides)
        /\ \A n \in DOMAIN OverflowIssues :
              LET q == OverflowIssues[n]
                  el == ElementOf(ir.slides, q)
                  log == PatchOf(ir'.patch, q)
              IN  (el.allow_shrink /\ FittingSizes(SlideOf(ir.slides, q), el) = {}) =>
                      /\ ElementOf(ir'.slides, q).font_size
                            \in DecrementSizes(el) \cup {el.font_size}
                      /\ Len(log) >= 2
                      /\ log[1].tier = 1 /\ log[1].outcome # "resolved"
                      /\ log[2].tier = 2]_vars

\* C23 witness: a 17pt text with min_font_pt 12 was shrunk to 13pt, which
\* did not end the overflow; the font stayed at 13pt and tier 2 went on.
ShrinkStoppedAboveMin ==
    /\ ir.phase = "render"
    /\ Len(ir.patch) >= 2
    /\ ir.patch[1] = [slide_id |-> "s1", element_id |-> "s1_e2",
                      tier |-> 1, outcome |-> "insufficient"]
    /\ ir.patch[2].tier = 2
    /\ ir.slides[1].elements[2].font_size = 13
    /\ ir.slides[1].elements[2].min_font_pt = 12

\* Largest member of a set of sizes.
Largest(S) == CHOOSE s \in S : \A u \in S : u <= s

\* C25: when shrinking is allowed and the text fits at some size of the
\* sequence current - d, current - 2d, ... not below min_font_pt, the Fix
\* Engine sets the font to the largest such size and does nothing else for
\* the issue: no later tier, no summarization, the text as it was.
ShrinkPicksFirstFit ==
    [][FixStep =>
        \A n \in DOMAIN OverflowIssues :
            LET q == OverflowIssues[n]
                el == ElementOf(ir.slides, q)
                fits == FittingSizes(SlideOf(ir.slides, q), el)
            IN  (el.allow_shrink /\ fits # {}) =>
                    /\ ElementOf(ir'.slides, q) = [el EXCEPT !.font_size = Largest(fits)]
                    /\ PatchOf(ir'.patch, q) =
                          <<[slide_id |-> q.slide_id, element_id |-> q.element_id,
                             tier |-> 1, outcome |-> "resolved"]>>]_vars

\* C25 witness: a text with min_font_pt 12 that overflows at 18pt and at
\* 16pt and fits at 14pt was set to 14pt by tier 1 alone.
ResolvedAtFourteen ==
    /\ ir.phase = "render"
    /\ ir.patch = <<[slide_id |-> "s1", element_id |-> "s1_e2",
                     tier |-> 1, outcome |-> "resolved"]>>
    /\ LET el == ir.slides[1].elements[2]
       IN  /\ el.font_size = 14
           /\ el.min_font_pt = 12
           /\ ~Overflows(ir.slides[1], el)
           /\ Overflows(ir.slides[1], [el EXCEPT !.font_size = 16])
           /\ Overflows(ir.slides[1], [el EXCEPT !.font_size = 18])

\* Tier t could not act on the element as the Fix Engine found it.
CouldNotApply(t, slide, el) ==
    CASE t = 1 -> ~el.allow_shrink \/ DecrementSizes(el) = {}
      [] t = 2 -> el.line_height = LineHeightTight
      [] t = 3 -> slide.padding = MinPadding
      [] t = 4 -> slide.layout_id # "two_column"
      [] t = 5 -> el.kind # "bullets" \/ el.text < 2
      [] OTHER -> TRUE

ElementIdsOn(slides, sid) ==
    LET slide == slides[SlideIndex(slides, sid)]
    IN  {slide.elements[j].element_id : j \in DOMAIN slide.elements}

\* kind of the element eid of slide sid.
KindOf(slides, sid, eid) ==
    LET slide == slides[SlideIndex(slides, sid)]
    IN  slide.elements[ElementIndex(slide, eid)].kind

\* No two slides and no two elements of the deck share an id.
IdsDistinct(slides) ==
    /\ Cardinality(SlideIds(slides)) = Len(slides)
    /\ Cardinality(ElementIds(slides)) = 2 * Len(slides)

\* C28: in every step (fix iteration with preset swap or slide split,
\* partial regeneration, layout, quality check) each slide_id of the IR
\* before the step is a slide_id after it, that slide keeps its
\* element_ids and each element its kind; ids are never shared, so added
\* slides and elements have fresh ids; layout and quality check leave the
\* IR as it is.
IdsStable ==
    [][/\ \A sid \in SlideIds(ir.slides) :
             /\ sid \in SlideIds(ir'.slides)
             /\ \A eid \in ElementIdsOn(ir.slides, sid) :
                   /\ eid \in ElementIdsOn(ir'.slides, sid)
                   /\ KindOf(ir'.slides, sid, eid) = KindOf(ir.slides, sid, eid)
       /\ IdsDistinct(ir.slides) => IdsDistinct(ir'.slides)
       /\ ir.phase \in {"render", "quality_check"} => ir'.slides = ir.slides]_vars

\* C28 witness: after a partial regeneration a fix iteration has swapped
\* the preset of slide s1 and split it; the continuation slide stands
\* between s1 and s2 under a new id.
SplitAfterRegeneration ==
    /\ ir.phase = "render"
    /\ ir.regenerated = 1
    /\ Len(ir.slides) >= 3
    /\ ir.slides[1].slide_id = "s1"
    /\ ir.slides[2].continuation
    /\ ir.slides[2].slide_id \notin {"s1", "s2"}
    /\ ir.slides[Len(ir.slides)].slide_id = "s2"
    /\ \E t \in DOMAIN ir.patch :
          /\ ir.patch[t].tier = 4 /\ ir.patch[t].outcome = "insufficient"
    /\ \E t \in DOMAIN ir.patch :
          /\ ir.patch[t].tier = 5 /\ ir.patch[t].outcome # "not_applicable"

(***************************************************************************)
(* Specification of layout diagnostics and quality check on one slide      *)
(***************************************************************************)
\* Layout Engine step 3 on the final bboxes of one slide.
ComputeOverlaps ==
    /\ plan.stage = "placed"
    /\ plan' = [plan EXCEPT !.overlaps = Overlaps(plan.bboxes),
                            !.stage = "diagnosed"]
    /\ UNCHANGED <<backend, ir, ui>>

\* Quality Checker on the LayoutPlan.
CheckLayoutPlan ==
    /\ plan.stage = "diagnosed"
    /\ plan' = [plan EXCEPT !.issues = QcIssues(plan),
                            !.pass = QcPass(Range(QcIssues(plan))),
                            !.stage = "checked"]
    /\ UNCHANGED <<backend, ir, ui>>

\* Three sibling elements placed on one slide.
InitQc ==
    /\ NoBackend
    /\ ir = NoIr
    /\ ui = NoUi
    /\ \E sa \in {<<4, 5>>, <<7, 10>>}, sb \in BoxSizes,
          sc \in {<<0, 5>>, <<6, 10>>, <<7, 10>>},
          xb, xc \in 0..MaxCoord, yb, yc \in YOffsets :
          plan = [bboxes |-> <<BBox("s1_e1", 0, 0, sa), BBox("s1_e2", xb, yb, sb),
                               BBox("s1_e3", xc, yc, sc)>>,
                  boxes |-> <<>>, overlaps |-> <<>>, issues |-> <<>>,
                  pass |-> FALSE, stage |-> "placed"]

NextQc ==
    \/ ComputeOverlaps
    \/ CheckLayoutPlan

SpecQc == InitQc /\ [][NextQc]_vars

\* Unit cells a box covers.
Cells(box) ==
    (box.x..(box.x + box.w - 1)) \X (box.y..(box.y + box.h - 1))

\* C26: for sibling boxes a, b of positive area overlap_ratio(a, b) equals
\* overlap_ratio(b, a), lies in [0, 1], is 0 when the boxes share no cell,
\* and is the number of shared cells over the cell count of the smaller
\* box; a pair with a zero-area box is an error, and the diagnostics hold
\* exactly these values.
OverlapRatioSound ==
    /\ \A i, j \in DOMAIN plan.bboxes :
          LET a == plan.bboxes[i]
              b == plan.bboxes[j]
              r == overlap_ratio(a, b)
          IN  i # j =>
                IF Cells(a) # {} /\ Cells(b) # {}
                THEN /\ ~r.error
                     /\ r = overlap_ratio(b, a)
                     /\ 0 <= r.num /\ r.num <= r.den /\ r.den > 0
                     /\ Cells(a) \cap Cells(b) = {} => r.num = 0
                     /\ r.num = Cardinality(Cells(a) \cap Cells(b))
                     /\ r.den = Smaller(Cardinality(Cells(a)), Cardinality(Cells(b)))
                ELSE r.error
    /\ \A k \in DOMAIN plan.overlaps :
          \E i, j \in DOMAIN plan.bboxes :
              /\ i < j
              /\ plan.overlaps[k].a = plan.bboxes[i].element_id
              /\ plan.overlaps[k].b = plan.bboxes[j].element_id
              /\ plan.overlaps[k].overlap_ratio =
                    overlap_ratio(plan.bboxes[i], plan.bboxes[j])
    /\ \A q \in Range(plan.issues) : ~q.details.overlap_ratio.error

\* C26 witness: the diagnostics of a slide hold a pair that overlaps in
\* part with the larger box first, and a pair with a zero-area box.
OverlapsDiagnosed ==
    /\ plan.stage = "diagnosed"
    /\ Area(plan.bboxes[1]) > Area(plan.bboxes[2])
    /\ plan.overlaps[1].overlap_ratio.num > 0
    /\ plan.overlaps[1].overlap_ratio.num < plan.overlaps[1].overlap_ratio.den
    /\ \E k \in DOMAIN plan.overlaps : plan.overlaps[k].overlap_ratio.error

\* Overlap issues of the report on the pair of elements d and e.
IssuesOn(d, e) ==
    SelectSeq(plan.issues,
              LAMBDA q : /\ q.type = "overlap"
                         /\ {q.details.a, q.details.b} = {d, e})

\* C27: in a QC report a sibling pair of positive-area boxes has an overlap
\* issue exactly when the shared cells are at least 2% of the cells of the
\* smaller box, and then exactly one; every overlap issue has severity
\* medium; pass is true exactly when the issue list is empty.
OverlapIssueAtThreshold ==
    plan.stage = "checked" =>
        /\ \A i, j \in DOMAIN plan.bboxes :
              LET a == plan.bboxes[i]
                  b == plan.bboxes[j]
                  shared == Cardinality(Cells(a) \cap Cells(b))
                  small == Smaller(Cardinality(Cells(a)), Cardinality(Cells(b)))
              IN  i < j =>
                    Len(IssuesOn(a.element_id, b.element_id)) =
                        IF small > 0 /\ 50 * shared >= small THEN 1 ELSE 0
        /\ \A q \in Range(plan.issues) : q.type = "overlap" /\ q.severity = "medium"
        /\ plan.pass <=> plan.issues = <<>>

\* C27 witness: one pair overlaps 5% of its smaller box, one pair exactly
\* 2%; the report has one medium overlap issue for each and does not pass.
OverlapFivePercentReported ==
    /\ plan.stage = "checked"
    /\ ~plan.pass
    /\ Len(plan.issues) = 2
    /\ \E m, n \in DOMAIN plan.issues :
          /\ 20 * plan.issues[m].details.overlap_ratio.num
                = plan.issues[m].details.overlap_ratio.den
          /\ plan.issues[m].severity = "medium"
          /\ 50 * plan.issues[n].details.overlap_ratio.num
                = plan.issues[n].details.overlap_ratio.den

(***************************************************************************)
(* Test UI (backend/static/app.js): run submission and event stream        *)
(***************************************************************************)
MaxSubmits == 3
MaxWrappers == 2
MaxInFlight == 2

\* Values of the prompt field, of data.progress, and the slide ids of
\* slide_chunk events.
Prompts == {"", "deck"}

ProgressValues == {0, 50}

ChunkSlideIds == {"s1", "s2"}

Formats == {"pptx", "html"}

\* A slide of a SlideSpec as the page handles it: the slide's id and the
\* revision of its content.  Slide indexes count from 1, and 0 stands for
\* null, as for run and artifact ids.
SlideData(slide_id, rev) == [slide_id |-> slide_id, rev |-> rev]

NoSlideData == SlideData("", 0)

\* The slide a run generates for slide id, and its data.slide_index.
Generated(slideId) == SlideData(slideId, 0)

SlideIndexOf(slideId) == IF slideId = "s1" THEN 1 ELSE 2

\* The server's HTML of a slide, and the absent data.html.
Rendered(slideData) == [html |-> slideData]

NoHtml == Rendered(NoSlideData)

ChunkHtml(slideId) == {NoHtml, Rendered(Generated(slideId))}

\* A fetch() whose response the page awaits: the endpoint, the artifact
\* id and the slide index of its URL, the request's body, and what the
\* awaiting function keeps in its locals.
Fetch(op, artifact, index, arg, body) ==
    [op |-> op, artifact |-> artifact, index |-> index, arg |-> arg, body |-> body]

\* The edit modal before it was ever opened.
ModalClosed ==
    [open |-> FALSE, editingSlideIndex |-> 0, currentSlideSpec |-> NoSlideData,
     editPreview |-> NoHtml, jsonEditArea |-> NoSlideData, jsonValid |-> FALSE,
     form |-> NoSlideData, formBuilt |-> FALSE, listening |-> FALSE,
     attachPending |-> FALSE, jsonListening |-> FALSE, tab |-> "visual",
     previewDebounceTimer |-> 0, editElemTailwind |-> <<>>,
     elemFontSize |-> "text-sm"]

\* The page after DOMContentLoaded.
PageLoaded ==
    [loading |-> FALSE, pending |-> FALSE, eventSource |-> 0, streams |-> <<>>,
     currentRunId |-> 0, currentArtifactId |-> 0, statusText |-> "Ready",
     progress |-> 0, progressContainer |-> FALSE, previewActions |-> FALSE,
     slidesContainer |-> <<>>, inflight |-> {}, timers |-> {},
     slideListVisible |-> FALSE, slideListData |-> <<>>, modal |-> ModalClosed]

\* setLoading(loading): the generate button is disabled while loading.
setLoading(u, loading) == [u EXCEPT !.loading = loading]

updateStatus(u, message) == [u EXCEPT !.statusText = message]

updateProgress(u, percent) == [u EXCEPT !.progress = percent]

resetUIKeepsArtifact(u) ==
    [updateProgress(u, 0) EXCEPT !.slidesContainer = <<>>,
                                 !.previewActions = FALSE,
                                 !.progressContainer = FALSE,
                                 !.slideListData = <<>>,
                                 !.slideListVisible = FALSE]

resetUI(u) ==
    [updateProgress(u, 0) EXCEPT !.slidesContainer = <<>>,
                                 !.previewActions = FALSE,
                                 !.progressContainer = FALSE,
                                 !.currentArtifactId = 0,
                                 !.slideListData = <<>>,
                                 !.slideListVisible = FALSE]

CloseNothing(streams, s) == streams

\* EventSource.close() on stream s.
Close(streams, s) == [streams EXCEPT ![s] = "closed"]

\* eventSource.close() on the stream the page has stored.
closeEventSource(u) == [u EXCEPT !.streams = Close(@, u.eventSource)]

\* Streams that can still deliver events.
OpenStreams(u) == {s \in DOMAIN u.streams : u.streams[s] = "open"}

\* startEventStream(runId): the stored stream is closed, a new one opened.
startEventStream(u, runId) ==
    LET closed == IF u.eventSource # 0 THEN closeEventSource(u) ELSE u
    IN  [updateProgress(closed, 0) EXCEPT
            !.progressContainer = TRUE,
            !.streams = Append(@, "open"),
            !.eventSource = Len(closed.streams) + 1]

\* handleSubmit up to its await: the submit event of the form, which the
\* disabled generate button withholds.
handleSubmit(prompt) ==
    /\ ~ui.loading
    /\ Len(ui.streams) < MaxSubmits
    /\ ui' = IF prompt = "" THEN ui
             ELSE [setLoading(resetUI(ui), TRUE) EXCEPT !.pending = TRUE]
    /\ UNCHANGED <<backend, ir, plan>>

\* handleSubmit after POST /runs answered: the stream of the new run is
\* started, or the error is shown.
CreateRunResponds(ok) ==
    /\ ui.pending
    /\ ui' = IF ok
             THEN LET runId == Len(ui.streams) + 1
                  IN  [startEventStream(
                          updateStatus([ui EXCEPT !.currentRunId = runId],
                                       "Run created"), runId)
                       EXCEPT !.pending = FALSE]
             ELSE [setLoading(updateStatus(ui, "Error"), FALSE) EXCEPT !.pending = FALSE]
    /\ UNCHANGED <<backend, ir, plan>>

\* eventSource.onopen of stream s.
OnOpen(s) ==
    /\ s \in OpenStreams(ui)
    /\ ui' = updateStatus(ui, "Connected, generating...")
    /\ UNCHANGED <<backend, ir, plan>>

\* eventSource.onerror of stream s.
OnError(s) ==
    /\ s \in OpenStreams(ui)
    /\ ui' = setLoading(closeEventSource(updateStatus(ui, "Connection error")), FALSE)
    /\ UNCHANGED <<backend, ir, plan>>

\* run_start and run_progress events of stream s.
OnRunStart(s) ==
    /\ s \in OpenStreams(ui)
    /\ ui' = updateProgress(ui, 5)
    /\ UNCHANGED <<backend, ir, plan>>

OnRunProgress(s, progress) ==
    /\ s \in OpenStreams(ui)
    /\ ui' = updateProgress(ui, progress)
    /\ UNCHANGED <<backend, ir, plan>>

\* slide_start event of stream s.
OnSlideStart(s) ==
    /\ s \in OpenStreams(ui)
    /\ ui' = updateStatus(ui, "Generating slide")
    /\ UNCHANGED <<backend, ir, plan>>

\* The wrapper addSlide creates.
Wrapper(slideId, slideIndex, html) ==
    [slideId |-> slideId, index |-> slideIndex, html |-> html]

\* addSlide as the slide_chunk handler calls it, without slideData: a
\* wrapper for the slide is appended to the container.
addSlide(u, slideId, slideIndex, html) ==
    [u EXCEPT !.slidesContainer = Append(@, Wrapper(slideId, slideIndex, html))]

\* slide_chunk event of stream s.
OnSlideChunk(s, slideId, html, is_complete) ==
    /\ s \in OpenStreams(ui)
    /\ Len(ui.slidesContainer) < MaxWrappers
    /\ ui' = IF html # NoHtml /\ is_complete
             THEN addSlide(ui, slideId, SlideIndexOf(slideId), html)
             ELSE ui
    /\ UNCHANGED <<backend, ir, plan>>

OnRunCompleteKeepsStream(s) ==
    /\ s \in OpenStreams(ui)
    /\ ui' = [setLoading(updateStatus(updateProgress(ui, 100), "Generation complete"), FALSE)
                 EXCEPT !.currentArtifactId = ui.currentRunId,
                        !.previewActions = TRUE]
    /\ UNCHANGED <<backend, ir, plan>>

\* run_complete event of stream s.
OnRunComplete(s) ==
    /\ s \in OpenStreams(ui)
    /\ ui' = closeEventSource(
                [setLoading(updateStatus(updateProgress(ui, 100),
                                         "Generation complete"), FALSE)
                    EXCEPT !.currentArtifactId = ui.currentRunId,
                           !.previewActions = TRUE])
    /\ UNCHANGED <<backend, ir, plan>>

\* run_error event of stream s.
OnRunError(s) ==
    /\ s \in OpenStreams(ui)
    /\ ui' = closeEventSource(
                setLoading(updateProgress(updateStatus(ui, "Error"), 0), FALSE))
    /\ UNCHANGED <<backend, ir, plan>>

\* fetch(): the request joins those awaiting their response.
Send(u, q) == [u EXCEPT !.inflight = @ \cup {q}]

\* The response to q arrived.
Answered(u, q) == [u EXCEPT !.inflight = @ \ {q}]

\* A further request can be sent and followed.
CanSend(u, q) == Cardinality(u.inflight) < MaxInFlight /\ q \notin u.inflight

\* downloadArtifact(format) up to its await: a click on a download button.
downloadArtifact(format) ==
    LET q == Fetch("download", ui.currentArtifactId, 0, format, NoSlideData)
    IN  /\ CanSend(ui, q)
        /\ ui' = IF ui.currentArtifactId = 0
                 THEN ui
                 ELSE Send(updateStatus(ui, "Downloading"), q)
        /\ UNCHANGED <<backend, ir, plan>>

\* downloadArtifact after its fetch: the file is saved, or the error shown.
DownloadResponds(q, ok) ==
    /\ q \in ui.inflight
    /\ q.op = "download"
    /\ ui' = Answered(updateStatus(ui, IF ok THEN "Downloaded" ELSE "Download error"), q)
    /\ UNCHANGED <<backend, ir, plan>>

\* The artifact the server stores for the run, a slide per index.
StoredArtifact == [phase |-> "stored", slides |-> <<Generated("s1"), Generated("s2")>>]

\* The server answers with a 2xx only for an artifact it stores.
CanAnswer(q, ok) == ok => q.artifact # 0

\* toggleSlideList with loadSlideList up to its await.
toggleSlideList ==
    LET q == Fetch("slides", ui.currentArtifactId, 0, "", NoSlideData)
        toggled == [ui EXCEPT !.slideListVisible = ~@]
    IN  /\ CanSend(ui, q)
        /\ ui' = IF toggled.slideListVisible /\ ui.currentArtifactId # 0
                 THEN Send(toggled, q)
                 ELSE toggled
        /\ UNCHANGED <<backend, ir, plan>>

\* loadSlideList after GET /artifacts/{id}/slides.
SlidesResponds(q, ok) ==
    /\ q \in ui.inflight
    /\ q.op = "slides"
    /\ CanAnswer(q, ok)
    /\ ui' = IF ok THEN [Answered(ui, q) EXCEPT !.slideListData = ir.slides]
             ELSE Answered(ui, q)
    /\ UNCHANGED <<backend, ir, plan>>

InitUI ==
    /\ NoBackend
    /\ ir = StoredArtifact
    /\ plan = NoPlan
    /\ ui = PageLoaded

NextUI ==
    \/ \E prompt \in Prompts : handleSubmit(prompt)
    \/ \E ok \in BOOLEAN : CreateRunResponds(ok)
    \/ \E s \in DOMAIN ui.streams : OnOpen(s)
    \/ \E s \in DOMAIN ui.streams : OnError(s)
    \/ \E s \in DOMAIN ui.streams : OnRunStart(s)
    \/ \E s \in DOMAIN ui.streams : \E p \in ProgressValues : OnRunProgress(s, p)
    \/ \E s \in DOMAIN ui.streams : OnSlideStart(s)
    \/ \E s \in DOMAIN ui.streams : \E slideId \in ChunkSlideIds :
          \E html \in ChunkHtml(slideId), is_complete \in BOOLEAN :
             OnSlideChunk(s, slideId, html, is_complete)
    \/ \E s \in DOMAIN ui.streams : OnRunComplete(s)
    \/ \E s \in DOMAIN ui.streams : OnRunError(s)
    \/ \E format \in Formats : downloadArtifact(format)
    \/ \E q \in ui.inflight : \E ok \in BOOLEAN : DownloadResponds(q, ok)
    \/ toggleSlideList
    \/ \E q \in ui.inflight : \E ok \in BOOLEAN : SlidesResponds(q, ok)

SpecUI == InitUI /\ [][NextUI]_vars

\* The step is the handling of an event that ends a stream.
StreamEnds ==
    \E s \in DOMAIN ui.streams : OnRunComplete(s) \/ OnRunError(s) \/ OnError(s)

\* C29: whenever an EventSource is open the generate button is disabled
\* (loading is true), and the handling of run_complete, of run_error and of
\* a connection error each leaves no stream open and loading false; the
\* submit handler runs only with loading false, so with no stream open.
OpenStreamImpliesLoading ==
    [][/\ OpenStreams(ui') # {} => ui'.loading
       /\ StreamEnds => (OpenStreams(ui') = {} /\ ~ui'.loading)
       /\ (ui'.pending /\ ~ui.pending) => OpenStreams(ui) = {}]_vars

\* C29 witness: the first run's stream was ended by run_complete, the
\* button came back, and the second run's stream is open with the button
\* disabled.
SecondRunStreaming ==
    /\ Len(ui.streams) = 2
    /\ ui.streams[1] = "closed"
    /\ ui.streams[2] = "open"
    /\ ui.loading
    /\ ui.currentRunId = 2
    /\ ui.progress = 50

\* C30: at most one EventSource is open, and it is the one the page has
\* stored; a step that stores a new stream leaves every earlier stream
\* closed, so no event of an earlier run is handled after a later run's
\* stream was opened.
AtMostOneOpenStream ==
    [][/\ Cardinality(OpenStreams(ui')) <= 1
       /\ OpenStreams(ui') \subseteq {ui'.eventSource}
       /\ ui'.eventSource # ui.eventSource =>
             /\ ui'.eventSource = Len(ui.streams) + 1
             /\ \A s \in DOMAIN ui.streams : ui'.streams[s] = "closed"]_vars

\* C30 witness: three runs were submitted one after the other; the streams
\* of the first two are closed, the third is open and stored.
ThirdStreamOnly ==
    /\ Len(ui.streams) = 3
    /\ OpenStreams(ui) = {3}
    /\ ui.eventSource = 3
    /\ ui.statusText = "Connected, generating..."

(***************************************************************************)
(* Test UI (backend/static/app.js): slide editing                          *)
(***************************************************************************)
\* Revisions of a slide's content: 0 as generated, 1 and 2 as typed into the
\* editor, and as regenerated.
EditRevs == {1, 2}

Regenerated(slideId) == SlideData(slideId, 3)

\* The page while the run's stream has delivered both slides.
Streamed ==
    [PageLoaded EXCEPT
        !.loading = TRUE, !.eventSource = 1, !.streams = <<"open">>,
        !.currentRunId = 1, !.statusText = "Connected, generating...",
        !.progressContainer = TRUE,
        !.slidesContainer =
            <<Wrapper("s1", 1, Rendered(Generated("s1"))),
              Wrapper("s2", 2, Rendered(Generated("s2")))>>]

\* The page after run_complete, and with the edit modal opened for the
\* first slide and loaded.
Completed ==
    [Streamed EXCEPT
        !.loading = FALSE, !.streams = <<"closed">>, !.currentArtifactId = 1,
        !.statusText = "Generation complete", !.progress = 100,
        !.previewActions = TRUE]

EditorLoaded ==
    [Completed EXCEPT
        !.modal = [ModalClosed EXCEPT
                      !.open = TRUE, !.editingSlideIndex = 1,
                      !.currentSlideSpec = Generated("s1"),
                      !.editPreview = Rendered(Generated("s1")),
                      !.jsonEditArea = Generated("s1"), !.jsonValid = TRUE,
                      !.form = Generated("s1"), !.formBuilt = TRUE,
                      !.attachPending = TRUE]]

\* The response to q arrived and the awaiting function sent q2.
FollowUp(u, q, q2) == [u EXCEPT !.inflight = (@ \ {q}) \cup {q2}]

First(S) == CHOOSE x \in S : \A y \in S : x <= y

\* document.querySelector(`[data-index="${index}"]`) and
\* document.getElementById(`slide-wrapper-${slideId}`): the position of the
\* first match in the container, 0 for null.
ByIndex(u, index) ==
    LET found == {k \in DOMAIN u.slidesContainer : u.slidesContainer[k].index = index}
    IN  IF found = {} THEN 0 ELSE First(found)

ById(u, slideId) ==
    LET found == {k \in DOMAIN u.slidesContainer : u.slidesContainer[k].slideId = slideId}
    IN  IF found = {} THEN 0 ELSE First(found)

\* openEditModal(slideIndex) up to its first await: a click on the Edit
\* button of a wrapper or of the slide list, which the open modal covers.
openEditModal(slideIndex) ==
    LET q == Fetch("slide", ui.currentArtifactId, slideIndex, "", NoSlideData)
    IN  /\ ByIndex(ui, slideIndex) # 0
        /\ ~ui.modal.open
        /\ CanSend(ui, q)
        /\ ui' = Send([ui EXCEPT !.modal.editingSlideIndex = slideIndex,
                                 !.modal.currentSlideSpec = NoSlideData,
                                 !.modal.open = TRUE], q)
        /\ UNCHANGED <<backend, ir, plan>>

\* openEditModal after GET /artifacts/{id}/slides/{slideIndex}.
SlideResponds(q, ok) ==
    /\ q \in ui.inflight
    /\ q.op = "slide"
    /\ CanAnswer(q, ok)
    /\ LET q2 == Fetch("slidespec", ui.currentArtifactId, q.index, "open", NoSlideData)
       IN  /\ q2 \notin ui.inflight
           /\ ui' = IF ok
                    THEN FollowUp([ui EXCEPT !.modal.editPreview =
                                                 Rendered(ir.slides[q.index])], q, q2)
                    ELSE Answered(ui, q)
    /\ UNCHANGED <<backend, ir, plan>>

\* hasClass(classes, className).
hasClass(classes, className) == \E k \in DOMAIN classes : classes[k] = className

\* FONT_SIZES, the text colours of COLOR_PRESETS and the font weights of the
\* form, two of each.
FONT_SIZES == <<"text-sm", "text-xl">>

TextColors == {"text-black", "text-white"}

FontWeights == {"font-normal", "font-bold"}

\* c.startsWith(prefix) for the classes above.
StartsWith(c, prefix) ==
    \/ prefix = "text-" /\ (c \in TextColors \/ hasClass(FONT_SIZES, c))
    \/ prefix = "font-" /\ c \in FontWeights

\* The option the font size select shows for an element with these
\* classes: the last option marked selected, else the first option.
SelectedFontSize(classes) ==
    LET marked == {k \in DOMAIN FONT_SIZES : hasClass(classes, FONT_SIZES[k])}
    IN  IF marked = {} THEN FONT_SIZES[1] ELSE FONT_SIZES[MaxOf(marked)]

\* The inputs buildVisualEditForm creates for a text element with
\* tailwind_classes classes.
ElementCard(u, classes) ==
    [u EXCEPT !.modal.editElemTailwind = classes,
              !.modal.elemFontSize = SelectedFontSize(classes)]

\* buildVisualEditForm(slideSpec): the form is rebuilt, so the listeners of
\* the earlier form's inputs are gone.  The slides a run generates carry no
\* element classes.
buildVisualEditForm(u, slideSpec) ==
    [ElementCard(u, <<>>) EXCEPT !.modal.form = slideSpec,
                                 !.modal.formBuilt = TRUE,
                                 !.modal.listening = FALSE]

\* openEditModal after GET /artifacts/{id}/slidespec.
SlideSpecResponds(q, ok) ==
    /\ q \in ui.inflight
    /\ q.op = "slidespec"
    /\ q.arg = "open"
    /\ CanAnswer(q, ok)
    /\ ui' = IF ok
             THEN LET slideSpec == ir.slides[q.index]
                  IN  [buildVisualEditForm(Answered(ui, q), slideSpec) EXCEPT
                          !.modal.currentSlideSpec = slideSpec,
                          !.modal.jsonEditArea = slideSpec,
                          !.modal.jsonValid = TRUE,
                          !.modal.attachPending = TRUE]
             ELSE Answered(ui, q)
    /\ UNCHANGED <<backend, ir, plan>>

\* attachPreviewListeners, 100 ms after the form was built.
attachPreviewListeners ==
    /\ ui.modal.attachPending
    /\ ui' = [ui EXCEPT !.modal.attachPending = FALSE,
                        !.modal.listening = ui.modal.formBuilt,
                        !.modal.jsonListening = TRUE]
    /\ UNCHANGED <<backend, ir, plan>>

closeEditModalOf(u) ==
    [u EXCEPT !.modal.open = FALSE, !.modal.editingSlideIndex = 0]

\* closeEditModal: the close button of the modal.
closeEditModal ==
    /\ ui.modal.open
    /\ ui' = closeEditModalOf(ui)
    /\ UNCHANGED <<backend, ir, plan>>

switchEditTab(tab) ==
    /\ ui.modal.open
    /\ ui.modal.tab # tab
    /\ ui' = [ui EXCEPT !.modal.tab = tab]
    /\ UNCHANGED <<backend, ir, plan>>

\* clearTimeout(id) and setTimeout(func): the browser's scheduled callbacks.
clearTimeout(timers, id) == {t \in timers : t.id # id}

FreshTimerId(u) ==
    First({n \in 1..(Cardinality(u.timers) + 2) :
              /\ n # u.modal.previewDebounceTimer
              /\ \A t \in u.timers : t.id # n})

debounceNoClear(u, func) ==
    LET id == FreshTimerId(u)
    IN  [u EXCEPT !.timers = @ \cup {[id |-> id, func |-> func]},
                  !.modal.previewDebounceTimer = id]

\* The function debounce returns: the callback previewDebounceTimer names
\* is cancelled, func is scheduled and its id stored.
debounce(u, func) ==
    LET id == FreshTimerId(u)
    IN  [u EXCEPT !.timers = clearTimeout(@, u.modal.previewDebounceTimer)
                                \cup {[id |-> id, func |-> func]},
                  !.modal.previewDebounceTimer = id]

\* An input event on a textarea of the visual form.
FormInput(rev) ==
    /\ ui.modal.open
    /\ ui.modal.formBuilt
    /\ ui.modal.form.rev # rev
    /\ LET typed == [ui EXCEPT !.modal.form.rev = rev]
       IN  ui' = IF ui.modal.listening
                 THEN debounce(typed, "updatePreviewInRealTime")
                 ELSE typed
    /\ UNCHANGED <<backend, ir, plan>>

\* An input event on the JSON editor: the text parses to a slide, or not.
JsonInput(valid, rev) ==
    /\ ui.modal.open
    /\ LET typed == [ui EXCEPT !.modal.jsonValid = valid,
                               !.modal.jsonEditArea.rev = IF valid THEN rev ELSE @]
       IN  /\ typed # ui
           /\ ui' = IF ui.modal.jsonListening
                    THEN debounce(typed, "updatePreviewFromJson")
                    ELSE typed
    /\ UNCHANGED <<backend, ir, plan>>

\* buildSlideDataFromForm: a copy of currentSlideSpec with the form's values.
buildSlideDataFromForm(u) ==
    IF u.modal.formBuilt
    THEN [u.modal.currentSlideSpec EXCEPT !.rev = u.modal.form.rev]
    ELSE u.modal.currentSlideSpec

\* The request of POST /artifacts/{id}/slides/{index}/preview with slideData.
PreviewRequest(u, from, slideData) ==
    Fetch("preview", u.currentArtifactId, u.modal.editingSlideIndex, from, slideData)

\* The callback func gets as far as its fetch: it does not return early,
\* and JSON.parse does not throw on the text of the JSON editor.
ReachesFetch(u, func) ==
    /\ u.modal.editingSlideIndex # 0
    /\ IF func = "updatePreviewInRealTime"
       THEN u.modal.currentSlideSpec # NoSlideData
       ELSE u.modal.jsonValid

\* updatePreviewInRealTime up to its await.
updatePreviewInRealTime(u) ==
    IF ReachesFetch(u, "updatePreviewInRealTime")
    THEN Send(u, PreviewRequest(u, "visual", buildSlideDataFromForm(u)))
    ELSE u

\* updatePreviewFromJson up to its await.
updatePreviewFromJson(u) ==
    IF ReachesFetch(u, "updatePreviewFromJson")
    THEN Send(u, PreviewRequest(u, "json", u.modal.jsonEditArea))
    ELSE u

\* The scheduled callback t runs.
TimerFires(t) ==
    /\ t \in ui.timers
    /\ LET fired == [ui EXCEPT !.timers = @ \ {t}]
           called == IF t.func = "updatePreviewInRealTime"
                     THEN updatePreviewInRealTime(fired)
                     ELSE updatePreviewFromJson(fired)
       IN  /\ ReachesFetch(ui, t.func) =>
                 \E q \in called.inflight \ ui.inflight : CanSend(ui, q)
           /\ ui' = called
    /\ UNCHANGED <<backend, ir, plan>>

\* updateElementTailwindClass(idx, prefix, newClass) on the hidden input of
\* the element.
updateElementTailwindClass(u, prefix, newClass) ==
    [u EXCEPT !.modal.editElemTailwind =
        Append(SelectSeq(@, LAMBDA c : ~StartsWith(c, prefix)), newClass)]

\* setElementColor: a click on a colour preset of the element.
setElementColor(colorClass) ==
    /\ ui.modal.open /\ ui.modal.formBuilt
    /\ ui' = debounce(updateElementTailwindClass(ui, "text-", colorClass),
                      "updatePreviewInRealTime")
    /\ UNCHANGED <<backend, ir, plan>>

\* setElementWeight: a click on a font weight button of the element.
setElementWeight(weight) ==
    /\ ui.modal.open /\ ui.modal.formBuilt
    /\ ui' = debounce(updateElementTailwindClass(ui, "font-", weight),
                      "updatePreviewInRealTime")
    /\ UNCHANGED <<backend, ir, plan>>

\* updateElementStyle(idx): the class of the size the select shows is set.
updateElementStyle(u) ==
    debounce(updateElementTailwindClass(u, "text-", u.modal.elemFontSize),
             "updatePreviewInRealTime")

\* A change of the font size select of the element: its onchange handler
\* updateElementStyle and, once attached, its change listener.
FontSizeChange(fontSize) ==
    /\ ui.modal.open /\ ui.modal.formBuilt
    /\ ui.modal.elemFontSize # fontSize
    /\ ui' = updateElementStyle([ui EXCEPT !.modal.elemFontSize = fontSize])
    /\ UNCHANGED <<backend, ir, plan>>

\* A change of the colour picker of the element: its onchange handler is
\* updateElementStyle.
ColorPickerChange ==
    /\ ui.modal.open /\ ui.modal.formBuilt
    /\ ui' = updateElementStyle(ui)
    /\ UNCHANGED <<backend, ir, plan>>

\* updatePreviewInRealTime and updatePreviewFromJson after POST .../preview.
PreviewResponds(q, ok) ==
    /\ q \in ui.inflight
    /\ q.op = "preview"
    /\ CanAnswer(q, ok)
    /\ LET shown == [Answered(ui, q) EXCEPT !.modal.editPreview = Rendered(q.body)]
       IN  ui' = IF ~ok THEN Answered(ui, q)
                 ELSE IF q.arg = "json"
                 THEN [shown EXCEPT !.modal.currentSlideSpec = q.body]
                 ELSE IF ui.modal.tab # "json"
                 THEN [shown EXCEPT !.modal.jsonEditArea = q.body,
                                    !.modal.jsonValid = TRUE]
                 ELSE shown
    /\ UNCHANGED <<backend, ir, plan>>

SaveFailedCloses(u) == closeEditModalOf(updateStatus(u, "Save failed"))

\* The catch block of saveSlideChanges.
SaveFailed(u) == updateStatus(u, "Save failed")

\* saveSlideChanges up to its first await: the Save button of the modal.
saveSlideChanges ==
    /\ Cardinality(ui.inflight) < MaxInFlight
    /\ ui' = IF ui.modal.editingSlideIndex = 0 THEN ui
             ELSE IF ui.modal.tab = "json"
             THEN IF ui.modal.jsonValid
                  THEN Send(updateStatus(ui, "Saving changes..."),
                            Fetch("put", ui.currentArtifactId,
                                  ui.modal.editingSlideIndex, "", ui.modal.jsonEditArea))
                  ELSE SaveFailed(ui)
             ELSE Send(ui, Fetch("slidespec", ui.currentArtifactId, 0, "save",
                                 NoSlideData))
    /\ UNCHANGED <<backend, ir, plan>>

\* saveSlideChanges in visual mode after GET /artifacts/{id}/slidespec: the
\* slide at editingSlideIndex with the values of the form is sent.
SaveSpecResponds(q, ok) ==
    /\ q \in ui.inflight
    /\ q.op = "slidespec"
    /\ q.arg = "save"
    /\ CanAnswer(q, ok)
    /\ ui' = IF ok /\ ui.modal.editingSlideIndex # 0 /\ ui.modal.formBuilt
             THEN LET slideData ==
                          [ir.slides[ui.modal.editingSlideIndex] EXCEPT
                              !.rev = ui.modal.form.rev]
                  IN  FollowUp(updateStatus(ui, "Saving changes..."), q,
                               Fetch("put", ui.currentArtifactId,
                                     ui.modal.editingSlideIndex, "", slideData))
             ELSE SaveFailed(Answered(ui, q))
    /\ UNCHANGED <<backend, ir, plan>>

\* The HTML of the wrapper at position k is replaced.
ReplaceHtml(u, k, html) ==
    IF k = 0 THEN u ELSE [u EXCEPT !.slidesContainer[k].html = html]

\* saveSlideChanges after PUT /artifacts/{id}/slides/{index}; the server
\* stores the slide it answers 2xx for.
PutResponds(q, ok) ==
    /\ q \in ui.inflight
    /\ q.op = "put"
    /\ CanAnswer(q, ok)
    /\ LET byIndex == ByIndex(ui, ui.modal.editingSlideIndex)
           k == IF byIndex # 0 THEN byIndex ELSE ById(ui, q.body.slide_id)
           shown == ReplaceHtml(Answered(ui, q), k, Rendered(q.body))
           named == IF k = 0 THEN shown
                    ELSE [shown EXCEPT !.slidesContainer[k].slideId = q.body.slide_id]
           listed == IF /\ ui.slideListVisible
                        /\ ui.modal.editingSlideIndex \in DOMAIN ui.slideListData
                     THEN [named EXCEPT
                              !.slideListData[ui.modal.editingSlideIndex] = q.body]
                     ELSE named
       IN  /\ ui' = IF ok
                    THEN closeEditModalOf(updateStatus(listed, "Changes saved!"))
                    ELSE SaveFailed(Answered(ui, q))
           /\ ir' = IF ok THEN [ir EXCEPT !.slides[q.index] = q.body] ELSE ir
    /\ UNCHANGED <<backend, plan>>

\* regenerateSlide up to its await: the Regenerate button of the modal.
regenerateSlide ==
    LET q == Fetch("regenerate", ui.currentArtifactId, ui.modal.editingSlideIndex,
                   "", NoSlideData)
    IN  /\ CanSend(ui, q)
        /\ ui' = IF ui.modal.editingSlideIndex = 0 THEN ui
                 ELSE Send(updateStatus(ui, "Regenerating slide..."), q)
        /\ UNCHANGED <<backend, ir, plan>>

\* regenerateSlide after POST .../regenerate; the server stores the slide
\* it regenerated.
RegenerateResponds(q, ok) ==
    /\ q \in ui.inflight
    /\ q.op = "regenerate"
    /\ CanAnswer(q, ok)
    /\ LET slide_data == Regenerated(ir.slides[q.index].slide_id)
           byId == ById(ui, slide_data.slide_id)
           k == IF byId # 0 THEN byId ELSE ByIndex(ui, ui.modal.editingSlideIndex)
           shown == ReplaceHtml(Answered(ui, q), k, Rendered(slide_data))
       IN  /\ ui' = IF ok
                    THEN updateStatus(
                            [buildVisualEditForm(shown, slide_data) EXCEPT
                                !.modal.editPreview = Rendered(slide_data),
                                !.modal.jsonEditArea = slide_data,
                                !.modal.jsonValid = TRUE], "Slide regenerated!")
                    ELSE updateStatus(Answered(ui, q), "Regeneration failed")
           /\ ir' = IF ok THEN [ir EXCEPT !.slides[q.index] = slide_data] ELSE ir
    /\ UNCHANGED <<backend, plan>>

\* Opening, closing and saving on the page of a run.
InitEditor ==
    /\ NoBackend
    /\ ir = StoredArtifact
    /\ plan = NoPlan
    /\ ui = Streamed

NextEditor ==
    \/ \E s \in DOMAIN ui.streams : OnRunComplete(s)
    \/ \E slideIndex \in DOMAIN ir.slides : openEditModal(slideIndex)
    \/ \E q \in ui.inflight : \E ok \in BOOLEAN : SlideResponds(q, ok)
    \/ \E q \in ui.inflight : \E ok \in BOOLEAN : SlideSpecResponds(q, ok)
    \/ closeEditModal
    \/ \E tab \in {"visual", "json"} : switchEditTab(tab)
    \/ saveSlideChanges
    \/ \E q \in ui.inflight : \E ok \in BOOLEAN : SaveSpecResponds(q, ok)
    \/ \E q \in ui.inflight : \E ok \in BOOLEAN : PutResponds(q, ok)

SpecEditor == InitEditor /\ [][NextEditor]_vars

\* Editing, saving and regenerating in the loaded modal.
InitLoaded ==
    /\ NoBackend
    /\ ir = StoredArtifact
    /\ plan = NoPlan
    /\ ui = EditorLoaded

NextSave ==
    \/ closeEditModal
    \/ \E tab \in {"visual", "json"} : switchEditTab(tab)
    \/ \E rev \in EditRevs : FormInput(rev)
    \/ \E valid \in BOOLEAN : \E rev \in EditRevs : JsonInput(valid, rev)
    \/ saveSlideChanges
    \/ \E q \in ui.inflight : \E ok \in BOOLEAN : SaveSpecResponds(q, ok)
    \/ \E q \in ui.inflight : \E ok \in BOOLEAN : PutResponds(q, ok)
    \/ regenerateSlide
    \/ \E q \in ui.inflight : \E ok \in BOOLEAN : RegenerateResponds(q, ok)

SpecSave == InitLoaded /\ [][NextSave]_vars

\* Editing in the loaded modal with the real-time preview.
NextPreview ==
    \/ attachPreviewListeners
    \/ closeEditModal
    \/ \E tab \in {"visual", "json"} : switchEditTab(tab)
    \/ \E rev \in EditRevs : FormInput(rev)
    \/ \E valid \in BOOLEAN : \E rev \in EditRevs : JsonInput(valid, rev)
    \/ \E t \in ui.timers : TimerFires(t)
    \/ \E q \in ui.inflight : \E ok \in BOOLEAN : PreviewResponds(q, ok)

SpecPreview == InitLoaded /\ [][NextPreview]_vars

\* Editing in the visual form only, the server rendering every preview.
NextVisual ==
    \/ attachPreviewListeners
    \/ closeEditModal
    \/ \E rev \in EditRevs : FormInput(rev)
    \/ \E t \in ui.timers : TimerFires(t)
    \/ \E q \in ui.inflight : PreviewResponds(q, TRUE)

SpecVisual == InitLoaded /\ [][NextVisual]_vars

\* The tailwind_classes a text element of the edited slide can carry.
ElementClasses ==
    {<<>>, <<"text-xl">>, <<"text-xl", "font-bold">>,
     <<"text-white", "font-bold", "text-sm">>}

\* Styling an element in the loaded modal.
InitStyle ==
    /\ NoBackend
    /\ ir = StoredArtifact
    /\ plan = NoPlan
    /\ \E classes \in ElementClasses : ui = ElementCard(EditorLoaded, classes)

NextStyle ==
    \/ \E colorClass \in TextColors : setElementColor(colorClass)
    \/ \E weight \in FontWeights : setElementWeight(weight)
    \/ \E k \in DOMAIN FONT_SIZES : FontSizeChange(FONT_SIZES[k])
    \/ ColorPickerChange
    \/ \E rev \in EditRevs : FormInput(rev)
    \/ attachPreviewListeners

SpecStyle == InitStyle /\ [][NextStyle]_vars

(***************************************************************************)
(* Test UI properties: download and slide preview                          *)
(***************************************************************************)
\* The requests of the step: those awaited after it and not before.
Sent == ui'.inflight \ ui.inflight

\* C31: currentArtifactId is null from the submit of a run until the
\* run_complete event of that run is handled; downloadArtifact sends no
\* request while it is null; and a non-null currentArtifactId equals
\* currentRunId.
DownloadGatedOnCompletion ==
    [][/\ (ui'.pending /\ ~ui.pending) => ui'.currentArtifactId = 0
       /\ (ui.currentArtifactId = 0 /\ ui'.currentArtifactId # 0) =>
             /\ OnRunComplete(ui.currentRunId)
             /\ ui.eventSource = ui.currentRunId
       /\ ui'.currentArtifactId # 0 => ui'.currentArtifactId = ui'.currentRunId
       /\ \A q \in Sent : q.op = "download" =>
             /\ ui.currentArtifactId # 0
             /\ q.artifact = ui.currentRunId]_vars

\* C31 witness: the first run's artifact was offered, a second run was
\* submitted and completed, and a download of the second run's artifact is
\* awaited.
SecondArtifactDownloading ==
    /\ ui.currentRunId = 2
    /\ ui.currentArtifactId = 2
    /\ ui.streams = <<"closed", "closed">>
    /\ \E q \in ui.inflight : q.op = "download" /\ q.artifact = 2

\* C37: the slide preview holds at most one wrapper per slide_id, in the
\* order of the complete slide_chunk events, and a wrapper is added only by
\* a slide_chunk with html and is_complete set.
OneWrapperPerSlide ==
    \A i, j \in DOMAIN ui.slidesContainer :
        ui.slidesContainer[i].slideId = ui.slidesContainer[j].slideId => i = j

(***************************************************************************)
(* Test UI properties: slide editing                                       *)
(***************************************************************************)
\* C36: every request to an /artifacts/{id}/... endpoint is sent with a
\* non-null artifact id, also after a click on the Edit button of a slide
\* added before run_complete.
ArtifactIdNeverNull == \A q \in ui.inflight : q.artifact # 0

\* The id of the slide the server stores at index.
StoredId(index) == ir.slides[index].slide_id

\* C33: while the edit modal is open for slide i, currentSlideSpec, the
\* JSON editor text and the visual form are those of slide i, and
\* saveSlideChanges sends no slide's content to another slide's index.
EditorHoldsEditedSlide ==
    /\ ui.modal.editingSlideIndex # 0 =>
          LET id == StoredId(ui.modal.editingSlideIndex)
          IN  /\ ui.modal.currentSlideSpec # NoSlideData =>
                    ui.modal.currentSlideSpec.slide_id = id
              /\ ui.modal.jsonValid => ui.modal.jsonEditArea.slide_id = id
              /\ ui.modal.formBuilt => ui.modal.form.slide_id = id
    /\ \A q \in ui.inflight : q.op = "put" => q.body.slide_id = StoredId(q.index)

\* The step belongs to saveSlideChanges.
SaveStep ==
    \/ saveSlideChanges
    \/ \E q \in ui.inflight : \E ok \in BOOLEAN :
          SaveSpecResponds(q, ok) \/ PutResponds(q, ok)

\* C35: a failed save leaves the modal open with editingSlideIndex, the
\* main preview, the slide list and the stored slides unchanged; of the
\* steps of a save only the 2xx answer to the PUT replaces the slide's HTML
\* in the main preview, and it closes the modal; with editingSlideIndex
\* null, save and regenerate send no request.
FailedSaveChangesNothing ==
    [][/\ (SaveStep /\ ui'.statusText = "Save failed") =>
             /\ ui'.modal = ui.modal
             /\ ui'.slidesContainer = ui.slidesContainer
             /\ ui'.slideListData = ui.slideListData
             /\ ir' = ir
       /\ (SaveStep /\ (ui'.slidesContainer # ui.slidesContainer
                            \/ ui'.modal.open # ui.modal.open)) =>
             /\ \E q \in ui.inflight : PutResponds(q, TRUE)
             /\ ui'.modal.editingSlideIndex = 0 /\ ~ui'.modal.open
       /\ (\E q \in ui.inflight : PutResponds(q, TRUE)) =>
             /\ \E k \in DOMAIN ui'.slidesContainer :
                   \E q \in ui.inflight :
                      ui'.slidesContainer[k].html = Rendered(q.body)
             /\ ui'.modal.editingSlideIndex = 0 /\ ~ui'.modal.open
       /\ ((saveSlideChanges \/ regenerateSlide)
              /\ ui.modal.editingSlideIndex = 0) => Sent = {}]_vars

\* C35 witness: the slide was edited in the form and the save was refused
\* by the server; the modal is still open on the slide with the edit, and
\* the main preview shows the slide as generated.
SaveRefusedModalOpen ==
    /\ ui.statusText = "Save failed"
    /\ ui.modal.open
    /\ ui.modal.editingSlideIndex = 1
    /\ ui.modal.tab = "visual"
    /\ ui.modal.form.rev = 2
    /\ ui.inflight = {}
    /\ ui.slidesContainer = Streamed.slidesContainer
    /\ ir = StoredArtifact

\* The step runs a scheduled callback.
Fires == \E t \in ui.timers : TimerFires(t)

\* The request the callback func sends from the form as it is now.
RequestOf(u, func) ==
    IF func = "updatePreviewInRealTime"
    THEN PreviewRequest(u, "visual", buildSlideDataFromForm(u))
    ELSE PreviewRequest(u, "json", u.modal.jsonEditArea)

\* At most one callback is scheduled, and a step that schedules one leaves
\* it the only one, the earlier one cancelled.
OneCallbackScheduled ==
    /\ Cardinality(ui'.timers) <= 1
    /\ (ui'.timers # ui.timers /\ ~Fires) =>
          /\ Cardinality(ui'.timers) = 1
          /\ ui'.timers \cap ui.timers = {}
          /\ \A t \in ui'.timers : t.id = ui'.modal.previewDebounceTimer

\* C32 as stated: at most one preview callback is scheduled, every trigger
\* cancels the scheduled one, and the callback that runs after a burst of
\* edits sends exactly one preview request, built from the form as it is
\* then.
BurstSendsOneRequest ==
    [][/\ OneCallbackScheduled
       /\ \A t \in ui.timers : TimerFires(t) => Sent = {RequestOf(ui, t.func)}]_vars

\* C32 as amended: at most one preview callback is scheduled, every trigger
\* cancels the scheduled one, and the callback that runs after a burst of
\* edits sends at most one preview request, built from the form as it is
\* then: exactly one when the modal is still open and the callback has
\* what it needs (currentSlideSpec for the form, a text that parses for
\* the JSON editor), and none otherwise.
BurstSendsAtMostOneRequest ==
    [][/\ OneCallbackScheduled
       /\ \A t \in ui.timers : TimerFires(t) =>
             Sent = IF ReachesFetch(ui, t.func) THEN {RequestOf(ui, t.func)} ELSE {}]_vars

\* C32 witness: two edits of the form in a burst, the first callback
\* cancelled by the second edit; the second callback ran and the one request
\* in flight carries the form's last state.
BurstAnsweredOnce ==
    /\ ui.timers = {}
    /\ ui.modal.previewDebounceTimer = 2
    /\ ui.modal.form.rev = 2
    /\ ui.inflight = {PreviewRequest(ui, "visual", SlideData("s1", 2))}
    /\ ui.modal.editPreview = Rendered(Generated("s1"))

\* C34: once no callback is scheduled and every preview request has been
\* answered, the preview of the modal shows the server's rendering of the
\* slide as last edited; the answer to an older request does not replace
\* that of a newer one.
PreviewShowsLastEdit ==
    [][((\E q \in ui.inflight : PreviewResponds(q, TRUE))
          /\ ui'.modal.open
          /\ ui'.timers = {}
          /\ \A q \in ui'.inflight : q.op # "preview") =>
             ui'.modal.editPreview = Rendered(buildSlideDataFromForm(ui'))]_vars

\* The classes of the list that are among S, in order.
Among(classes, S) == SelectSeq(classes, LAMBDA c : c \in S)

FontSizeClasses == {FONT_SIZES[k] : k \in DOMAIN FONT_SIZES}

\* C38: a colour choice leaves the font size class of the element, a font
\* size choice its text colour class, and a font weight choice both; after
\* a choice the class list holds the chosen class exactly once.
StyleChoicesIndependent ==
    [][/\ \A c \in TextColors : setElementColor(c) =>
             /\ Among(ui'.modal.editElemTailwind, FontSizeClasses)
                   = Among(ui.modal.editElemTailwind, FontSizeClasses)
             /\ Among(ui'.modal.editElemTailwind, TextColors) = <<c>>
       /\ \A k \in DOMAIN FONT_SIZES : FontSizeChange(FONT_SIZES[k]) =>
             /\ Among(ui'.modal.editElemTailwind, TextColors)
                   = Among(ui.modal.editElemTailwind, TextColors)
             /\ Among(ui'.modal.editElemTailwind, FontSizeClasses) = <<FONT_SIZES[k]>>
       /\ \A w \in FontWeights : setElementWeight(w) =>
             /\ Among(ui'.modal.editElemTailwind, TextColors \cup FontSizeClasses)
                   = Among(ui.modal.editElemTailwind, TextColors \cup FontSizeClasses)
             /\ Among(ui'.modal.editElemTailwind, FontWeights) = <<w>>]_vars

====
